---- MODULE Spec2Model ----
(***************************************************************************)
(* Model of the mina-sdk execution orchestrator (services/execute.ts) and  *)
(* of the in-memory execution registry (execution-store.ts).               *)
(*                                                                         *)
(* JavaScript runs one task at a time: the code between two awaits of an   *)
(* async function is atomic.  Every action below is one such segment of    *)
(* execute(): it starts when an awaited promise settles and runs, with     *)
(* every store write, event emission and callback it makes, up to the next *)
(* await or to the return/rejection of execute().                          *)
(***************************************************************************)
EXTENDS Integers, Sequences, FiniteSets, TLC

(***************************************************************************)
(* Bounds of the model.                                                    *)
(***************************************************************************)
MaxExec == 2      \* execute() calls that may be in flight together
MaxSteps == 2     \* longest quote (number of steps)
MaxPolls == 1     \* PENDING / network-error polls per execution
StartTime == 1000000 \* Date.now() when the model starts
MaxFaults == 2    \* failures of collaborators and callbacks per run
Headroom == 1     \* free slots of the registry below which the store run branches
MaxTracked == 2   \* oldest entries the store run updates and deletes
ExtraCreates == 2 \* creations of the store run beyond the capacity
MaxAdvance == 1   \* jumps of more than an hour that the clock of the store run makes
MaxCallers == 3   \* getBalance calls of a run of the balance service
MaxRequests == 2  \* fetches the balance service starts in a run
MaxQuoteCalls == 3 \* getQuote calls of a run of the quote service
MaxArrivalPolls == 3 \* poll intervals that the longest arrival timeout spans
MaxL1Polls == 3   \* polls of the trading ledger per run of the L1 monitor
MaxExtensions == 1 \* extendTimeout calls per run of the L1 monitor
MaxListeners == 3 \* callbacks registered on the emitter in a run
MaxEmits == 3     \* emit() calls per run of the emitter, nested ones included

(***************************************************************************)
(* Program constants.                                                      *)
(***************************************************************************)
maxExecutions == 100
oneHour == 3600000
MAX_QUOTE_AGE_MS == 300000
STATUS_POLL_INTERVAL_MS == 5000
MAX_EXECUTION_WAIT_MS == 600000
APPROVAL_CONFIRMATION_WAIT_MS == 3000

Null == 0          \* null, undefined and '' of a transaction hash or amount
Undef == "undefined"

VARIABLES
  now,          \* Date.now()
  executions,   \* ExecutionStore.executions, in Map insertion order
  pc,           \* where each execute() call is suspended
  ctx,          \* the closure variables of each execute() call
  events,       \* what each execute() call emitted on the emitter
  writes,       \* the registry entry of each call after each of its writes
  result,       \* what each execute() call returned or rejected with
  faults,       \* failures injected so far
  created,      \* ExecutionStore.create calls so far (store run)
  balanceCache,     \* BalanceCache.balanceCache: key -> { data, timestamp }
  pendingRequests,  \* BalanceCache.pendingRequests: key -> promise in flight
  debounceTimers,   \* BalanceCache.debounceTimers: key -> timer
  requests,     \* the fetchPromise bodies getBalance started, in order of creation
  callers,      \* the getBalance calls made and what each was answered
  balances,     \* the getBalances call and its BalancesResponse
  network,      \* what the balance service asked the network for so far
  quoteCache,   \* QuoteCache.cache: key -> { quote, timestamp }
  quoteCalls,   \* the getQuote calls made and what each was answered
  arrival,      \* the detectUsdcArrivalFromSnapshot call: its locals and its outcome
  l1,           \* the monitorL1Confirmation call: its closure, its result promise
  emitter,      \* an SDKEventEmitter with the listeners of one event, and its call stack
  deposit       \* the executeDeposit call: its locals, its position and its outcome

executeVars == <<executions, pc, ctx, events, writes, result, created>>

balanceVars ==
  <<balanceCache, pendingRequests, debounceTimers, requests, callers, balances, network>>

quoteVars == <<quoteCache, quoteCalls>>

watchVars == <<arrival, l1, emitter, deposit>>

serviceVars == <<balanceVars, quoteVars, watchVars>>

nonBalanceVars == <<executeVars, quoteVars, watchVars>>

nonQuoteVars == <<executeVars, balanceVars, watchVars>>

nonArrivalVars == <<executeVars, balanceVars, quoteVars, l1, emitter, deposit>>

nonL1Vars == <<executeVars, balanceVars, quoteVars, arrival, emitter, deposit>>

nonEmitterVars == <<executeVars, balanceVars, quoteVars, arrival, l1, deposit>>

nonDepositVars == <<executeVars, balanceVars, quoteVars, arrival, l1, emitter>>

vars == <<now, faults, executeVars, serviceVars>>

ExecIds == 1..MaxExec

(***************************************************************************)
(* Errors.  An Error is its class name and its message.                    *)
(***************************************************************************)
NoError == [name |-> "none", message |-> ""]
Err(n, m) == [name |-> n, message |-> m]

\* message.toLowerCase(), as the list of its words
LowerWords(message) ==
  CASE message = "User denied transaction signature" ->
         <<"user", "denied", "transaction", "signature">>
    [] message = "User rejected transaction" -> <<"user", "rejected", "transaction">>
    [] message = "User rejected approval transaction" ->
         <<"user", "rejected", "approval", "transaction">>
    [] message = "User rejected" -> <<"user", "rejected">>
    [] message = "insufficient funds for gas" -> <<"insufficient", "funds", "for", "gas">>
    [] message = "execution reverted" -> <<"execution", "reverted">>
    [] message = "Wallet not connected" -> <<"wallet", "not", "connected">>
    [] message = "Failed to get step transaction" ->
         <<"failed", "to", "get", "step", "transaction">>
    [] message = "Failed to get approval transaction" ->
         <<"failed", "to", "get", "approval", "transaction">>
    [] message = "Transaction failed" -> <<"transaction", "failed">>
    [] message = "Transaction timed out waiting for completion" ->
         <<"transaction", "timed", "out", "waiting", "for", "completion">>
    [] message = "callback failed" -> <<"callback", "failed">>
    [] OTHER -> <<>>

\* String.prototype.includes on the lower-cased message
Includes(words, pattern) ==
  \E k \in 0..(Len(words) - Len(pattern)) :
     \A j \in 1..Len(pattern) : words[k + j] = pattern[j]

nonRecoverablePatterns ==
  { <<"user", "rejected">>, <<"user", "denied">>, <<"insufficient", "balance">>,
    <<"insufficient", "funds">>, <<"nonce", "too", "low">> }

isRecoverableError(error) ==
  ~ \E p \in nonRecoverablePatterns : Includes(LowerWords(error.message), p)

userRejectionPatterns ==
  { <<"user", "rejected">>, <<"user", "denied">>, <<"user", "cancelled">>,
    <<"rejected", "by", "user">>, <<"action_rejected">> }

isUserRejection(error) ==
  \/ error.name = "UserRejectedError"
  \/ \E p \in userRejectionPatterns : Includes(LowerWords(error.message), p)

\* the classes that extend MinaError
MinaErrors ==
  { "InsufficientBalanceError", "NoRouteFoundError", "SlippageExceededError",
    "InvalidSlippageError", "TransactionFailedError", "UserRejectedError",
    "NetworkError", "DepositFailedError", "MaxRetriesExceededError",
    "QuoteExpiredError", "InvalidQuoteError", "QuoteFetchError",
    "InvalidQuoteParamsError" }

normalizeError(error) ==
  LET message == LowerWords(error.message)
      matches(patterns) == \E p \in patterns : Includes(message, p)
  IN  IF error.name \in MinaErrors THEN error
      ELSE IF matches({ <<"user", "rejected">>, <<"user", "denied">>,
                        <<"rejected", "by", "user">>, <<"user", "cancelled">> })
           THEN Err("UserRejectedError", "User rejected the transaction")
      ELSE IF matches({ <<"insufficient", "funds">>, <<"insufficient", "balance">> })
           THEN Err("InsufficientBalanceError", "Insufficient balance for transaction")
      ELSE IF matches({ <<"network">>, <<"timeout">>, <<"fetch", "failed">>,
                        <<"connection">> })
           THEN Err("NetworkError", error.message)
      ELSE Err("TransactionFailedError", error.message)

(***************************************************************************)
(* ExecutionStore.  The Map is a sequence of entries in insertion order.   *)
(***************************************************************************)
IndexOf(store, id) ==
  IF \E k \in 1..Len(store) : store[k].executionId = id
  THEN CHOOSE k \in 1..Len(store) : store[k].executionId = id
  ELSE 0

StoreHas(store, id) == IndexOf(store, id) # 0

StoreGet(store, id) == store[IndexOf(store, id)]

\* Map.set: a known key keeps its place, a new key goes last
MapSet(store, id, state) ==
  IF StoreHas(store, id)
  THEN [store EXCEPT ![IndexOf(store, id)] = state]
  ELSE Append(store, state)

\* Map.delete
MapDelete(store, id) ==
  SelectSeq(store, LAMBDA s : s.executionId # id)

IsTerminal(status) == status \in {"completed", "failed"}

\* the entry that sorting by createdAt puts first: Array.prototype.sort is
\* stable, so among equal createdAt the first inserted
Oldest(store) ==
  CHOOSE k \in 1..Len(store) :
     /\ \A j \in 1..Len(store) : store[k].createdAt <= store[j].createdAt
     /\ \A j \in 1..(k - 1) : store[j].createdAt > store[k].createdAt

\* deleting sorted.slice(0, n): the first n entries of the sorted array, one by one
RECURSIVE DeleteOldest(_, _)
DeleteOldest(store, n) ==
  IF n = 0 \/ Len(store) = 0 THEN store
  ELSE DeleteOldest(MapDelete(store, store[Oldest(store)].executionId), n - 1)

ExpiredWhateverStatus(s, t) == t - s.updatedAt > oneHour

\* entries that are terminal and were updated more than an hour before t
Expired(s, t) == IsTerminal(s.status) /\ t - s.updatedAt > oneHour

cleanupKeepAll(store, t) == store

cleanup(store, t) ==
  LET kept == SelectSeq(store, LAMBDA s : ~ Expired(s, t))
  IN  IF Len(kept) >= maxExecutions
      THEN DeleteOldest(kept, maxExecutions \div 4)
      ELSE kept

NewState(t, params) ==
  [ executionId |-> params.executionId,
    quoteId |-> params.quoteId,
    status |-> "pending",
    currentStepIndex |-> 0,
    totalSteps |-> Len(params.steps),
    steps |-> [k \in 1..Len(params.steps) |->
                 [stepId |-> params.steps[k].id, step |-> params.steps[k].type,
                  status |-> "pending", txHash |-> Null, error |-> NoError,
                  timestamp |-> t]],
    txHash |-> Null,
    receivingTxHash |-> Null,
    fromAmount |-> params.fromAmount,
    toAmount |-> params.toAmount,
    receivedAmount |-> Null,
    fromChainId |-> params.fromChainId,
    toChainId |-> params.toChainId,
    progress |-> 0,
    estimatedTime |-> params.estimatedTime,
    substatus |-> "Initializing...",
    error |-> NoError,
    retryCount |-> 0,
    previousErrors |-> <<>>,
    failedStepIndex |-> Null,
    createdAt |-> t,
    updatedAt |-> t ]

StoreCreate(store, t, params) ==
  LET room == IF Len(store) >= maxExecutions THEN cleanup(store, t) ELSE store
  IN  MapSet(room, params.executionId, NewState(t, params))

StoreUpdateShared(store, t, id, updates) ==
  IF ~ StoreHas(store, id) THEN store
  ELSE [k \in 1..Len(store) |->
          [f \in DOMAIN store[k] |->
             IF f = "updatedAt" THEN t
             ELSE IF f \in DOMAIN updates THEN updates[f]
             ELSE store[k][f]]]

\* { ...state, ...updates, updatedAt: Date.now() }
StoreUpdate(store, t, id, updates) ==
  IF ~ StoreHas(store, id) THEN store
  ELSE LET state == StoreGet(store, id)
           merged == [f \in DOMAIN state |->
                        IF f = "updatedAt" THEN t
                        ELSE IF f \in DOMAIN updates THEN updates[f]
                        ELSE state[f]]
       IN  MapSet(store, id, merged)

StoreUpdateStep(store, t, id, stepId, updates) ==
  IF ~ StoreHas(store, id) THEN store
  ELSE LET state == StoreGet(store, id)
       IN  IF ~ \E k \in 1..Len(state.steps) : state.steps[k].stepId = stepId
           THEN store
           ELSE LET k == CHOOSE k \in 1..Len(state.steps) :
                           /\ state.steps[k].stepId = stepId
                           /\ \A j \in 1..(k - 1) : state.steps[j].stepId # stepId
                    cur == state.steps[k]
                    upd == [ stepId |-> cur.stepId,
                             step |-> IF updates.step # Undef THEN updates.step
                                      ELSE cur.step,
                             status |-> IF updates.status # Undef THEN updates.status
                                        ELSE cur.status,
                             txHash |-> IF updates.txHash # -1 THEN updates.txHash
                                        ELSE cur.txHash,
                             error |-> IF updates.error.name # Undef THEN updates.error
                                       ELSE cur.error,
                             timestamp |-> t ]
                IN  StoreUpdate(store, t, id,
                                [steps |-> [state.steps EXCEPT ![k] = upd]])

getStatus(store, id) ==
  IF ~ StoreHas(store, id)
  THEN [ executionId |-> id, found |-> FALSE, status |-> "pending",
         currentStep |-> [index |-> -1], steps |-> <<>>, progress |-> 0,
         txHash |-> Null, receivingTxHash |-> Null,
         error |-> [message |-> "", step |-> -1, recoverable |-> TRUE, isNull |-> TRUE],
         timestamps |-> [created |-> 0, updated |-> 0] ]
  ELSE LET state == StoreGet(store, id)
           k == state.currentStepIndex + 1
           failedAt == { j \in 1..Len(state.steps) : state.steps[j].status = "failed" }
       IN  [ executionId |-> id, found |-> TRUE, status |-> state.status,
             currentStep |-> IF k \in 1..Len(state.steps)
                             THEN [ index |-> state.currentStepIndex,
                                    type |-> state.steps[k].step,
                                    status |-> state.steps[k].status ]
                             ELSE [index |-> -1],
             steps |-> state.steps, progress |-> state.progress,
             txHash |-> state.txHash, receivingTxHash |-> state.receivingTxHash,
             error |-> IF state.error # NoError
                       THEN [ message |-> state.error.message,
                              step |-> IF failedAt = {} THEN -1
                                       ELSE state.steps[CHOOSE j \in failedAt :
                                              \A i \in failedAt : j <= i].stepId,
                              recoverable |-> isRecoverableError(state.error),
                              isNull |-> FALSE ]
                       ELSE [message |-> "", step |-> -1, recoverable |-> TRUE,
                             isNull |-> TRUE],
             timestamps |-> [created |-> state.createdAt, updated |-> state.updatedAt] ]

(***************************************************************************)
(* Pure helpers of the orchestrator.                                       *)
(***************************************************************************)
HYPEREVM_CHAIN_ID == 999
SOURCE_CHAIN_ID == 1
FROM_AMOUNT == 1000
TO_AMOUNT == 990

mapStepType(stepType) ==
  CASE stepType = "approve" -> "approval"
    [] stepType = "swap" -> "swap"
    [] stepType = "bridge" -> "bridge"
    [] stepType = "deposit" -> "deposit"
    [] OTHER -> "bridge"

\* Math.min(100, Math.round(currentStep/totalSteps*100 + stepProgress/totalSteps*100)),
\* with stepProgress given in halves (1 for 0.5, 2 for 1)
calculateProgressReversed(currentStep, totalSteps, halves) ==
  IF totalSteps = 0 THEN 0
  ELSE LET twice == 200 * (totalSteps - 1 - currentStep) + 100 * halves
           rounded == (twice + totalSteps) \div (2 * totalSteps)
       IN  IF rounded > 100 THEN 100 ELSE rounded

calculateProgress(currentStep, totalSteps, halves) ==
  IF totalSteps = 0 THEN 0
  ELSE LET twice == 200 * currentStep + 100 * halves
           rounded == (twice + totalSteps) \div (2 * totalSteps)
       IN  IF rounded > 100 THEN 100 ELSE rounded

mapSubstatusToMessage(substatus) ==
  CASE substatus = "PENDING" -> "Transaction pending..."
    [] substatus = "NOT_PROCESSABLE_REFUND_NEEDED" -> "Refund needed"
    [] substatus = "UNKNOWN" -> "Processing transaction..."
    [] substatus = "BRIDGE_NOT_AVAILABLE" -> "Bridge temporarily unavailable"
    [] substatus = "CHAIN_NOT_AVAILABLE" -> "Chain temporarily unavailable"
    [] substatus = "REFUND_IN_PROGRESS" -> "Refund in progress"
    [] substatus = "COMPLETED" -> "Transaction completed"
    [] substatus = "WAIT_SOURCE_CONFIRMATIONS" ->
         "Waiting for source chain confirmations..."
    [] substatus = "WAIT_DESTINATION_TRANSACTION" ->
         "Waiting for destination transaction..."
    [] substatus = "PARTIAL" -> "Partial transfer completed"
    [] substatus = "REFUNDED" -> "Transaction refunded"
    [] substatus = "NOT_FOUND" -> "Transaction not found"
    [] OTHER -> "Status: " \o substatus

ToUpperCase(status) ==
  CASE status = "idle" -> "IDLE"
    [] status = "approving" -> "APPROVING"
    [] status = "approved" -> "APPROVED"
    [] status = "executing" -> "EXECUTING"
    [] status = "bridging" -> "BRIDGING"
    [] status = "completed" -> "COMPLETED"
    [] status = "failed" -> "FAILED"
    [] OTHER -> status

MappedStatus(status) ==
  CASE status = "completed" -> "completed"
    [] status = "failed" -> "failed"
    [] status = "idle" -> "pending"
    [] OTHER -> "in_progress"

\* the error validateQuote throws, NoError when it returns
validateQuoteLax(quote, t) == NoError

validateQuote(quote, t) ==
  IF quote.isNull THEN Err("InvalidQuoteError", "Quote is null or undefined")
  ELSE IF quote.id = "" THEN Err("InvalidQuoteError", "Quote is missing ID")
  ELSE IF Len(quote.steps) = 0
       THEN Err("InvalidQuoteError", "Quote has no execution steps")
  ELSE IF quote.fromAmount = 0 \/ quote.toAmount = 0
       THEN Err("InvalidQuoteError", "Quote is missing amount information")
  ELSE IF quote.expiresAt # 0 /\ t > quote.expiresAt
       THEN Err("QuoteExpiredError", "Quote has expired, please fetch a new one")
  ELSE LET quoteTimestamp == IF quote.expiresAt # 0
                             THEN quote.expiresAt - MAX_QUOTE_AGE_MS ELSE 0
       IN  IF quoteTimestamp > 0 /\ t - quoteTimestamp > MAX_QUOTE_AGE_MS
           THEN Err("QuoteExpiredError",
                    "Quote has exceeded maximum age, please fetch a new one")
           ELSE NoError

createInitialStepStatuses(steps) ==
  [k \in 1..Len(steps) |->
     [stepId |-> steps[k].id, stepType |-> mapStepType(steps[k].type),
      status |-> "pending", txHash |-> Null, error |-> ""]]

\* a partial StepStatus: Undef, -1 and "" stand for an absent status, txHash, error
StepUpdate(status, txHash, error) ==
  [status |-> status, txHash |-> txHash, error |-> error]

updateStepStatus(statuses, stepId, update) ==
  [k \in 1..Len(statuses) |->
     IF statuses[k].stepId = stepId
     THEN [ statuses[k] EXCEPT
              !.status = IF update.status # Undef THEN update.status ELSE @,
              !.txHash = IF update.txHash # -1 THEN update.txHash ELSE @,
              !.error = IF update.error # "" THEN update.error ELSE @ ]
     ELSE statuses[k]]

(***************************************************************************)
(* The synchronous part of execute().  A run of synchronous code is a      *)
(* chain of steps over a record M: the store (st), the closure variables   *)
(* (cx), the emitted events (ev), the log of registry writes (wr), the     *)
(* exception in flight (exc), and where the call ends up (pc, res).  A     *)
(* step does nothing while an exception is in flight.                      *)
(***************************************************************************)
CallbackError == Err("Error", "callback failed")

\* F applied to the value of x: a value computed once and then used as often as
\* F likes, as a const binding is
Apply(x, F(_)) == CHOOSE r \in { F(v) : v \in {x} } : TRUE

Snapshot(st, e) ==
  LET s == StoreGet(st, e)
  IN  [ status |-> s.status, progress |-> s.progress,
        currentStepIndex |-> s.currentStepIndex,
        stepStatus |-> [k \in 1..Len(s.steps) |-> s.steps[k].status],
        error |-> s.error ]

\* a store call made for execution e; it is logged when the entry exists
Write(M, e, st2) ==
  Apply(st2, LAMBDA st :
    [M EXCEPT !.st = st,
              !.wr = IF StoreHas(st, e) THEN Append(@, Snapshot(st, e)) ELSE @])

\* SDKEventEmitter.emit: listener exceptions are caught inside emit
Emit(M0, event) ==
  Apply(M0, LAMBDA M :
    IF M.exc # NoError THEN M ELSE [M EXCEPT !.ev = Append(@, event)])

Raise(M0, error) ==
  Apply(M0, LAMBDA M :
    IF M.exc # NoError THEN M ELSE [M EXCEPT !.exc = error])

\* a caller-supplied callback, called directly
Callback(M, throws) == Raise(M, IF throws THEN CallbackError ELSE NoError)

CurrentStep(M) == M.cx.quote.steps[M.cx.i + 1]

updateStatus(M0, e, t, status, substatus) ==
  Apply(M0, LAMBDA M :
    IF M.exc # NoError THEN M
    ELSE LET mappedStatus == MappedStatus(status)
             sub == IF substatus # "" THEN substatus
                    ELSE mapSubstatusToMessage(ToUpperCase(status))
             progress == calculateProgress(M.cx.i, Len(M.cx.quote.steps),
                                           IF status = "completed" THEN 2 ELSE 1)
             M1 == Write([M EXCEPT !.cx.currentStatus = status], e,
                         StoreUpdate(M.st, t, e,
                                     [ status |-> mappedStatus, substatus |-> sub,
                                       progress |-> progress ]))
             M2 == Emit(M1, [ type |-> "STATUS_CHANGED", status |-> mappedStatus,
                              substatus |-> sub, currentStep |-> M.cx.i + 1,
                              totalSteps |-> Len(M.cx.quote.steps),
                              txHash |-> M.cx.finalTxHash,
                              receivingTxHash |-> M.cx.receivingTxHash,
                              progress |-> progress ])
         IN  Callback(M2, mappedStatus \in M.cx.cfg.statusThrows))

updateStep(M0, e, t, stepId, update) ==
  Apply(M0, LAMBDA M :
    IF M.exc # NoError THEN M
    ELSE Apply(updateStepStatus(M.cx.stepStatuses, stepId, update), LAMBDA statuses :
      IF ~ \E k \in 1..Len(statuses) : statuses[k].stepId = stepId
      THEN [M EXCEPT !.cx.stepStatuses = statuses]
      ELSE LET stepStatus == statuses[CHOOSE k \in 1..Len(statuses) :
                                /\ statuses[k].stepId = stepId
                                /\ \A j \in 1..(k - 1) : statuses[j].stepId # stepId]
               payload ==
                 [ step |-> stepStatus.stepType,
                   status |-> IF update.status = "executing" THEN "active"
                              ELSE IF update.status # Undef THEN update.status
                              ELSE stepStatus.status,
                   txHash |-> IF update.txHash # -1 THEN update.txHash
                              ELSE stepStatus.txHash,
                   error |-> IF update.error # "" THEN Err("Error", update.error)
                             ELSE NoError ]
               M1 == Write([M EXCEPT !.cx.stepStatuses = statuses], e,
                           StoreUpdateStep(M.st, t, e, stepId, payload))
               M2 == Emit(M1, [ type |-> "STEP_CHANGED", stepId |-> stepId,
                                step |-> payload.step, status |-> payload.status,
                                txHash |-> payload.txHash, error |-> payload.error ])
           IN  Callback(M2, payload.status \in M.cx.cfg.stepThrows)))

Returned(M0, e, status, error) ==
  Apply(M0, LAMBDA M :
    [M EXCEPT !.pc = "returned",
              !.res = [ outcome |-> "returned", executionId |-> e, status |-> status,
                        steps |-> M.cx.stepStatuses, txHash |-> M.cx.finalTxHash,
                        receivedAmount |-> IF status = "completed"
                                           THEN M.cx.receivedAmount ELSE Null,
                        error |-> error ]])

Rejected(M, error) ==
  [M EXCEPT !.pc = "rejected", !.exc = NoError,
            !.res = [ outcome |-> "rejected", executionId |-> Null, status |-> "none",
                      steps |-> <<>>, txHash |-> Null, receivedAmount |-> Null,
                      error |-> error ]]

\* stepStatuses.map(...): pending and executing steps become failed
MarkFailed(stepStatuses) ==
  [k \in 1..Len(stepStatuses) |->
     IF stepStatuses[k].status \in {"pending", "executing"}
     THEN [stepStatuses[k] EXCEPT !.status = "failed"]
     ELSE stepStatuses[k]]

\* stepStatuses.find((s) => s.status === 'failed')?.stepId ?? null
FirstFailed(stepStatuses) ==
  LET failedAt == { k \in 1..Len(stepStatuses) : stepStatuses[k].status = "failed" }
  IN  IF failedAt = {} THEN -1
      ELSE stepStatuses[CHOOSE k \in failedAt : \A j \in failedAt : k <= j].stepId

\* the catch block of execute(), entered with the exception in M0.exc
Catch(M0, e, t) ==
  Apply(M0, LAMBDA M :
    Apply(updateStatus([M EXCEPT !.exc = NoError], e, t, "failed", M.exc.message),
          LAMBDA M1 :
      IF M1.exc # NoError THEN Rejected(M1, M1.exc)
      ELSE Apply(MarkFailed(M1.cx.stepStatuses), LAMBDA failedSteps :
             LET M3 == Write([M1 EXCEPT !.cx.stepStatuses = failedSteps], e,
                             StoreUpdate(M1.st, t, e,
                               [ status |-> "failed", error |-> M.exc,
                                 substatus |-> M.exc.message ]))
                 M4 == Emit(M3, [ type |-> "EXECUTION_FAILED", executionId |-> e,
                                  error |-> M.exc,
                                  step |-> FirstFailed(failedSteps) ])
             IN  Returned(M4, e, "failed", M.exc))))

\* the end of a synchronous run: an exception in flight reaches the catch block
Settle(M0, e, t) ==
  Apply(M0, LAMBDA M : IF M.exc # NoError THEN Catch(M, e, t) ELSE M)

\* after the loop: "All steps completed"
Complete(M0, e, t) ==
  Apply(updateStatus(M0, e, t, "completed", "Bridge completed successfully"),
        LAMBDA M1 :
    IF M1.exc # NoError THEN M1
    ELSE LET M2 == Write(M1, e, StoreUpdate(M1.st, t, e,
                           [ status |-> "completed", progress |-> 100,
                             substatus |-> "Bridge completed successfully" ]))
             M3 == Emit(M2, [ type |-> "EXECUTION_COMPLETED", executionId |-> e,
                              txHash |-> M1.cx.finalTxHash,
                              receivedAmount |-> M1.cx.receivedAmount ])
         IN  Returned(M3, e, "completed", NoError))

RunLoopNoSkip(M0, e, t, i) ==
  Apply(M0, LAMBDA M :
    IF M.exc # NoError THEN M
    ELSE IF i >= Len(M.cx.quote.steps) THEN Complete(M, e, t)
    ELSE [updateStep([M EXCEPT !.cx.i = i], e, t, M.cx.quote.steps[i + 1].id,
                     StepUpdate("executing", -1, ""))
            EXCEPT !.pc = "getStepTransaction"])

\* the head of the step loop, from index i up to the next await
RECURSIVE RunLoop(_, _, _, _)
RunLoop(M0, e, t, i) ==
  Apply(M0, LAMBDA M :
    IF M.exc # NoError THEN M
    ELSE IF i >= Len(M.cx.quote.steps) THEN Complete(M, e, t)
    ELSE LET step == M.cx.quote.steps[i + 1]
         IN  IF step.type = "deposit"
             THEN RunLoop(updateStep([M EXCEPT !.cx.i = i], e, t, step.id,
                                     StepUpdate("pending", -1, "")),
                          e, t, i + 1)
             ELSE [updateStep([M EXCEPT !.cx.i = i], e, t, step.id,
                              StepUpdate("executing", -1, ""))
                     EXCEPT !.pc = "getStepTransaction"])

ExecutingMessage(stepType) == "Executing " \o stepType \o "..."

\* "Execute the main transaction", up to signer.sendTransaction
MainStart(M0, e, t) ==
  Apply(M0, LAMBDA M :
    [Callback(updateStatus(M, e, t, "executing",
                           ExecutingMessage(mapStepType(CurrentStep(M).type))),
              M.cx.cfg.transactionRequestThrows)
       EXCEPT !.pc = "sendMain"])

\* catch of the approval try block
ApprovalCatch(M0) ==
  Apply(M0, LAMBDA M :
    IF M.exc # NoError /\ isUserRejection(M.exc)
    THEN [M EXCEPT !.exc = Err("UserRejectedError", "User rejected approval transaction")]
    ELSE M)

MainCatchSwallows(M0, e, t) ==
  Apply(M0, LAMBDA M :
    IF M.exc = NoError THEN M
    ELSE updateStep([M EXCEPT !.exc = NoError], e, t, CurrentStep(M).id,
                    StepUpdate("failed", -1, M.exc.message)))

\* catch of the main-transaction try block
MainCatch(M0, e, t) ==
  Apply(M0, LAMBDA M :
    IF M.exc = NoError THEN M
    ELSE IF isUserRejection(M.exc)
         THEN Raise(updateStep([M EXCEPT !.exc = NoError], e, t, CurrentStep(M).id,
                               StepUpdate("failed", -1, "User rejected")),
                    Err("UserRejectedError", "User rejected transaction"))
         ELSE Raise(updateStep([M EXCEPT !.exc = NoError], e, t, CurrentStep(M).id,
                               StepUpdate("failed", -1, M.exc.message)),
                    M.exc))

(***************************************************************************)
(* Inputs of execute().                                                    *)
(***************************************************************************)
StepKinds ==
  { [type |-> "bridge", native |-> FALSE], [type |-> "bridge", native |-> TRUE],
    [type |-> "approve", native |-> FALSE], [type |-> "deposit", native |-> FALSE] }

StepLists ==
  UNION { [1..n -> StepKinds] : n \in 1..MaxSteps }

MkQuote(isNull, id, kinds, fromAmount, toAmount, expiresAt) ==
  [ isNull |-> isNull, id |-> id,
    steps |-> [k \in 1..Len(kinds) |->
                 [id |-> k, type |-> kinds[k].type, native |-> kinds[k].native]],
    fromAmount |-> fromAmount, toAmount |-> toAmount, expiresAt |-> expiresAt,
    estimatedTime |-> 120 * Len(kinds) ]

OneBridge == <<[type |-> "bridge", native |-> FALSE]>>

\* quotes that validateQuote is given at time t; expiresAt 0 is an unset expiresAt
MalformedQuotes(t) ==
  { MkQuote(TRUE, "", <<>>, 0, 0, 0),
    MkQuote(FALSE, "", OneBridge, FROM_AMOUNT, TO_AMOUNT, t + 1),
    MkQuote(FALSE, "q1", <<>>, FROM_AMOUNT, TO_AMOUNT, t + 1),
    MkQuote(FALSE, "q1", OneBridge, 0, TO_AMOUNT, t + 1),
    MkQuote(FALSE, "q1", OneBridge, FROM_AMOUNT, 0, t + 1) }

WellFormedQuotes(t) ==
  { MkQuote(FALSE, "q1", kinds, FROM_AMOUNT, TO_AMOUNT, x) :
      kinds \in StepLists, x \in {0, t - 1, t, t + 1} }

QuotesAt(t) == MalformedQuotes(t) \cup WellFormedQuotes(t)

\* which notifications the caller's callbacks throw on
Cfg(statusThrows, stepThrows, approvalRequestThrows, transactionRequestThrows) ==
  [ statusThrows |-> statusThrows, stepThrows |-> stepThrows,
    approvalRequestThrows |-> approvalRequestThrows,
    transactionRequestThrows |-> transactionRequestThrows ]

NoThrow == Cfg({}, {}, FALSE, FALSE)

Configs ==
  { NoThrow,
    Cfg({"failed"}, {}, FALSE, FALSE), Cfg({"completed"}, {}, FALSE, FALSE),
    Cfg({"completed", "failed"}, {}, FALSE, FALSE),
    Cfg({"in_progress"}, {}, FALSE, FALSE),
    Cfg({}, {"failed"}, FALSE, FALSE), Cfg({}, {"active"}, FALSE, FALSE),
    Cfg({}, {}, TRUE, FALSE), Cfg({}, {}, FALSE, TRUE) }

SignerErrors ==
  { Err("Error", "User denied transaction signature"),
    Err("Error", "insufficient funds for gas"),
    Err("Error", "execution reverted") }

PollResponses ==
  { [status |-> "PENDING", receiving |-> FALSE], [status |-> "PENDING", receiving |-> TRUE],
    [status |-> "NOT_FOUND", receiving |-> FALSE],
    [status |-> "DONE", receiving |-> FALSE], [status |-> "DONE", receiving |-> TRUE],
    [status |-> "FAILED", receiving |-> FALSE] }

TxHashOf(e, i, kind) == 100 * e + 10 * (i + 1) + kind

IdleCtx ==
  [ quote |-> [id |-> "", steps |-> <<>>, fromAmount |-> 0, toAmount |-> 0,
               estimatedTime |-> 0],
    cfg |-> NoThrow, i |-> 0, currentStatus |-> "idle", stepStatuses |-> <<>>,
    finalTxHash |-> Null, receivedAmount |-> Null, receivingTxHash |-> Null,
    approvalAddress |-> FALSE, approvalTxHash |-> Null, txHash |-> Null,
    startTime |-> 0, wakeAt |-> 0, polls |-> 0,
    \* not in the code: what the call was given and what the signer answered
    given |-> [malformed |-> FALSE, expired |-> FALSE, due |-> FALSE],
    signerError |-> NoError ]

NoResult ==
  [ outcome |-> "none", executionId |-> Null, status |-> "none", steps |-> <<>>,
    txHash |-> Null, receivedAmount |-> Null, error |-> NoError ]

(***************************************************************************)
(* The actions: one per segment of execute() between two awaits.           *)
(***************************************************************************)
Machine(e) ==
  [ st |-> executions, cx |-> ctx[e], ev |-> events[e], wr |-> writes[e],
    exc |-> NoError, pc |-> pc[e], res |-> result[e] ]

Commit(e, M0) ==
  \E M \in {M0} :
     /\ executions' = M.st
     /\ ctx' = [ctx EXCEPT ![e] = M.cx]
     /\ events' = [events EXCEPT ![e] = M.ev]
     /\ writes' = [writes EXCEPT ![e] = M.wr]
     /\ pc' = [pc EXCEPT ![e] = M.pc]
     /\ result' = [result EXCEPT ![e] = M.res]

Fault == /\ faults < MaxFaults
         /\ faults' = faults + 1

\* execute(config) up to "await signer.getAddress()"
ExecuteWith(e, quotes, configs) ==
  /\ pc[e] = "idle"
  /\ \A d \in ExecIds : d < e => pc[d] # "idle"
  /\ \E quote \in quotes, cfg \in configs :
       /\ IF cfg = NoThrow THEN UNCHANGED faults ELSE Fault
       /\ LET invalid == validateQuote(quote, now)
              given == [ malformed |-> \/ quote.isNull \/ quote.id = ""
                                       \/ Len(quote.steps) = 0
                                       \/ quote.fromAmount = 0 \/ quote.toAmount = 0,
                         expired |-> quote.expiresAt # 0 /\ now > quote.expiresAt,
                         due |-> quote.expiresAt # 0 /\ quote.expiresAt <= now ]
              M == [Machine(e) EXCEPT !.cx.given = given]
          IN  IF invalid # NoError
              THEN Commit(e, Rejected(M, invalid))
              ELSE LET M1 == Write(M, e, StoreCreate(M.st, now,
                                [ executionId |-> e, quoteId |-> quote.id,
                                  steps |-> [k \in 1..Len(quote.steps) |->
                                               [ id |-> quote.steps[k].id,
                                                 type |-> mapStepType(quote.steps[k].type) ]],
                                  fromAmount |-> quote.fromAmount,
                                  toAmount |-> quote.toAmount,
                                  fromChainId |-> SOURCE_CHAIN_ID,
                                  toChainId |-> HYPEREVM_CHAIN_ID,
                                  estimatedTime |-> quote.estimatedTime ]))
                       M2 == Emit(M1, [ type |-> "EXECUTION_STARTED", executionId |-> e,
                                        quoteId |-> quote.id ])
                   IN  Commit(e, [M2 EXCEPT
                         !.pc = "getAddress",
                         !.cx = [ IdleCtx EXCEPT
                                    !.quote = [ id |-> quote.id, steps |-> quote.steps,
                                                fromAmount |-> quote.fromAmount,
                                                toAmount |-> quote.toAmount,
                                                estimatedTime |-> quote.estimatedTime ],
                                    !.cfg = cfg, !.given = given,
                                    !.stepStatuses =
                                       createInitialStepStatuses(quote.steps) ]])
  /\ UNCHANGED <<now, created, serviceVars>>

\* signer.getAddress() settles; the loop runs up to getStepTransaction
AddressSettles(e) ==
  /\ pc[e] = "getAddress"
  /\ \/ /\ UNCHANGED faults
        /\ Commit(e, Settle(RunLoop(Machine(e), e, now, 0), e, now))
     \/ /\ Fault
        /\ Commit(e, Settle(Raise(Machine(e), Err("Error", "Wallet not connected")),
                            e, now))
  /\ UNCHANGED <<now, created, serviceVars>>

\* getStepTransaction settles
StepTransactionSettles(e) ==
  /\ pc[e] = "getStepTransaction"
  /\ \/ /\ Fault
        /\ Commit(e, Settle(Raise(Machine(e),
                                  Err("NetworkError", "Failed to get step transaction")),
                            e, now))
     \/ /\ UNCHANGED faults
        /\ \E approvalAddress \in BOOLEAN :
             LET M == [Machine(e) EXCEPT !.cx.approvalAddress = approvalAddress]
             IN  IF CurrentStep(M).type # "approve" /\ approvalAddress
                 THEN Commit(e, [M EXCEPT !.pc = "checkApprovalNeeded"])
                 ELSE Commit(e, Settle(MainStart(M, e, now), e, now))
  /\ UNCHANGED <<now, created, serviceVars>>

\* checkApprovalNeeded settles: false for a native token, else allowance < amount
\* (true as well when the allowance cannot be read)
ApprovalNeededSettles(e) ==
  /\ pc[e] = "checkApprovalNeeded"
  /\ \E needsApproval \in (IF CurrentStep(Machine(e)).native THEN {FALSE} ELSE BOOLEAN) :
       LET M == Machine(e)
       IN  IF needsApproval
           THEN LET M1 == updateStatus(M, e, now, "approving",
                                       "Waiting for token approval...")
                    M2 == Callback(M1, M.cx.cfg.approvalRequestThrows)
                    M3 == Emit(M2, [ type |-> "APPROVAL_REQUIRED",
                                     amount |-> M.cx.quote.fromAmount ])
                IN  Commit(e, Settle([M3 EXCEPT !.pc = "getApprovalTransaction"], e, now))
           ELSE Commit(e, Settle(MainStart(M, e, now), e, now))
  /\ UNCHANGED <<now, faults, created, serviceVars>>

\* getApprovalTransaction settles
ApprovalTransactionSettles(e) ==
  /\ pc[e] = "getApprovalTransaction"
  /\ \/ /\ UNCHANGED faults
        /\ Commit(e, [Machine(e) EXCEPT !.pc = "sendApproval"])
     \/ /\ Fault
        /\ Commit(e, Settle(ApprovalCatch(Raise(Machine(e),
                       Err("NetworkError", "Failed to get approval transaction"))),
                     e, now))
  /\ UNCHANGED <<now, created, serviceVars>>

\* signer.sendTransaction(approvalTx) settles
SendApprovalSettles(e) ==
  /\ pc[e] = "sendApproval"
  /\ \/ /\ UNCHANGED faults
        /\ LET M == Machine(e)
               approvalTxHash == TxHashOf(e, M.cx.i, 1)
               M1 == Emit(M, [ type |-> "TRANSACTION_SENT", txHash |-> approvalTxHash,
                               chainId |-> SOURCE_CHAIN_ID, stepType |-> "approval" ])
           IN  Commit(e, [M1 EXCEPT !.pc = "approvalWait",
                                    !.cx.approvalTxHash = approvalTxHash,
                                    !.cx.wakeAt = now + APPROVAL_CONFIRMATION_WAIT_MS])
     \/ /\ Fault
        /\ \E error \in SignerErrors :
             Commit(e, Settle(ApprovalCatch(Raise(Machine(e), error)), e, now))
  /\ UNCHANGED <<now, created, serviceVars>>

ApprovalWaitDoneQuiet(e) ==
  /\ pc[e] = "approvalWait"
  /\ now >= ctx[e].wakeAt
  /\ LET M == Machine(e)
         M2 == Emit(M, [ type |-> "TRANSACTION_CONFIRMED",
                         txHash |-> M.cx.approvalTxHash,
                         chainId |-> SOURCE_CHAIN_ID, stepType |-> "approval" ])
         M3 == ApprovalCatch(updateStep(M2, e, now, CurrentStep(M).id,
                                        StepUpdate(Undef, M.cx.approvalTxHash, "")))
     IN  Commit(e, Settle(MainStart(M3, e, now), e, now))
  /\ UNCHANGED <<now, faults, created, serviceVars>>

\* the approval timer fires
ApprovalWaitDone(e) ==
  /\ pc[e] = "approvalWait"
  /\ now >= ctx[e].wakeAt
  /\ LET M == Machine(e)
         M1 == updateStatus(M, e, now, "approved", "Token approval confirmed")
         M2 == Emit(M1, [ type |-> "TRANSACTION_CONFIRMED",
                          txHash |-> M.cx.approvalTxHash,
                          chainId |-> SOURCE_CHAIN_ID, stepType |-> "approval" ])
         M3 == ApprovalCatch(updateStep(M2, e, now, CurrentStep(M).id,
                                        StepUpdate(Undef, M.cx.approvalTxHash, "")))
     IN  Commit(e, Settle(MainStart(M3, e, now), e, now))
  /\ UNCHANGED <<now, faults, created, serviceVars>>

\* signer.sendTransaction(txRequest) settles; on success the code runs up to the
\* first pollTransactionStatus of waitForCompletion
SendMainSettles(e) ==
  /\ pc[e] = "sendMain"
  /\ \/ /\ UNCHANGED faults
        /\ LET M == Machine(e)
               step == CurrentStep(M)
               txHash == TxHashOf(e, M.cx.i, 2)
               M1 == Emit([M EXCEPT !.cx.finalTxHash = txHash, !.cx.txHash = txHash],
                          [ type |-> "TRANSACTION_SENT", txHash |-> txHash,
                            chainId |-> SOURCE_CHAIN_ID,
                            stepType |-> mapStepType(step.type) ])
               M3 == Apply(updateStep(M1, e, now, step.id,
                                      StepUpdate("executing", txHash, "")),
                           LAMBDA M2 :
                             IF M2.exc # NoError THEN M2
                             ELSE Write(M2, e, StoreUpdate(M2.st, now, e,
                                                           [txHash |-> txHash])))
               M4 == updateStatus(M3, e, now, "bridging",
                                  "Waiting for bridge confirmation...")
           IN  Commit(e, Settle(MainCatch([M4 EXCEPT !.pc = "pollTransactionStatus",
                                                     !.cx.startTime = now],
                                          e, now), e, now))
     \/ /\ Fault
        /\ \E error \in SignerErrors :
             Commit(e, Settle(MainCatch(Raise([Machine(e) EXCEPT
                                                !.cx.signerError = error], error),
                                        e, now), e, now))
  /\ UNCHANGED <<now, created, serviceVars>>

\* the onStatusUpdate callback execute() gives to waitForCompletion
onStatusUpdate(M, e, t, response) ==
  Apply(IF response.status = "PENDING"
        THEN updateStatus(updateStep(M, e, t, CurrentStep(M).id,
                                     StepUpdate("executing", M.cx.txHash, "")),
                          e, t, "bridging", mapSubstatusToMessage("PENDING"))
        ELSE M,
        LAMBDA M1 :
    IF response.receiving /\ M1.exc = NoError
    THEN LET h == TxHashOf(e, M.cx.i, 3)
         IN  Write([M1 EXCEPT !.cx.receivingTxHash = h], e,
                   StoreUpdate(M1.st, t, e, [receivingTxHash |-> h]))
    ELSE M1)

AfterCompletionUnconfirmed(M, e, t, response) ==
  LET step == CurrentStep(M)
      M2 == updateStep(M, e, t, step.id, StepUpdate("completed", M.cx.txHash, ""))
  IN  RunLoop(MainCatch(M2, e, t), e, t, M.cx.i + 1)

\* execute() after waitForCompletion returned the DONE status
AfterCompletion(M, e, t, response) ==
  LET step == CurrentStep(M)
      M1 == Emit(M, [ type |-> "TRANSACTION_CONFIRMED", txHash |-> M.cx.txHash,
                      chainId |-> HYPEREVM_CHAIN_ID,
                      stepType |-> mapStepType(step.type) ])
      M3 == Apply(updateStep(M1, e, t, step.id,
                             StepUpdate("completed", M.cx.txHash, "")),
                  LAMBDA M2 :
                    IF response.receiving /\ M2.exc = NoError
                    THEN Write([M2 EXCEPT
                                  !.cx.receivedAmount = M.cx.quote.toAmount,
                                  !.cx.receivingTxHash = TxHashOf(e, M.cx.i, 3)], e,
                               StoreUpdate(M2.st, t, e,
                                           [receivedAmount |-> M.cx.quote.toAmount]))
                    ELSE M2)
  IN  RunLoop(MainCatch(M3, e, t), e, t, M.cx.i + 1)

Sleep(M, t) ==
  [M EXCEPT !.pc = "pollSleep", !.exc = NoError,
            !.cx.wakeAt = t + STATUS_POLL_INTERVAL_MS, !.cx.polls = @ + 1]

\* pollTransactionStatus settles inside waitForCompletion
PollSettles(e) ==
  /\ pc[e] = "pollTransactionStatus"
  /\ \/ /\ ctx[e].polls < MaxPolls
        /\ UNCHANGED faults
        /\ Commit(e, Sleep(Machine(e), now))
     \/ \E response \in PollResponses :
          \E M \in {onStatusUpdate(Machine(e), e, now, response)} :
              CASE M.exc # NoError \/ response.status \in {"PENDING", "NOT_FOUND"} ->
                     /\ ctx[e].polls < MaxPolls
                     /\ UNCHANGED faults
                     /\ Commit(e, Sleep(M, now))
                [] M.exc = NoError /\ response.status = "DONE" ->
                     /\ UNCHANGED faults
                     /\ Commit(e, Settle(AfterCompletion(M, e, now, response), e, now))
                [] M.exc = NoError /\ response.status = "FAILED" ->
                     /\ Fault
                     /\ Commit(e, Settle(MainCatch(Raise(M,
                                  Err("TransactionFailedError", "Transaction failed")),
                                  e, now), e, now))
  /\ UNCHANGED <<now, created, serviceVars>>

PollSleepDoneNoTimeout(e) ==
  /\ pc[e] = "pollSleep"
  /\ now >= ctx[e].wakeAt
  /\ Commit(e, [Machine(e) EXCEPT !.pc = "pollTransactionStatus"])
  /\ UNCHANGED <<now, faults, created, serviceVars>>

\* the poll timer fires: the loop condition of waitForCompletion is read again
PollSleepDone(e) ==
  /\ pc[e] = "pollSleep"
  /\ now >= ctx[e].wakeAt
  /\ IF now - ctx[e].startTime < MAX_EXECUTION_WAIT_MS
     THEN Commit(e, [Machine(e) EXCEPT !.pc = "pollTransactionStatus"])
     ELSE Commit(e, Settle(MainCatch(Raise(Machine(e),
                      Err("TransactionFailedError",
                          "Transaction timed out waiting for completion")),
                      e, now), e, now))
  /\ UNCHANGED <<now, faults, created, serviceVars>>

Sleeping(e) == pc[e] \in {"approvalWait", "pollSleep"} /\ ctx[e].wakeAt > now

\* time passes up to a timer's deadline
Tick ==
  /\ \E e \in ExecIds : Sleeping(e) /\ now' = ctx[e].wakeAt
  /\ UNCHANGED <<executions, pc, ctx, events, writes, result, faults, created, serviceVars>>

\* a timer fires late: the task was held up for MAX_EXECUTION_WAIT_MS
LateTick ==
  /\ \E e \in ExecIds : Sleeping(e) /\ now' = ctx[e].wakeAt + MAX_EXECUTION_WAIT_MS
  /\ Fault
  /\ UNCHANGED <<executions, pc, ctx, events, writes, result, created, serviceVars>>

(***************************************************************************)
(* The state of a new client's balance service.                            *)
(***************************************************************************)
\* new Map()
EmptyMap == [k \in {} |-> 0]

NoData == [address |-> <<>>, balance |-> -1, hasBalance |-> FALSE]

IdleCaller ==
  [ pc |-> "idle", address |-> <<>>, chainId |-> 0, tokenAddress |-> <<>>,
    promise |-> 0, outcome |-> "none", data |-> NoData, error |-> "",
    \* not in the code: what answered the call (the cache, a request in flight,
    \* a new request), and whether the answer was an expired cache entry
    source |-> "none", gotStale |-> FALSE,
    \* a leaf of getBalances: chainHasStaleData as this leaf set it
    leaf |-> FALSE, chainHasStaleData |-> FALSE ]

InitBalance ==
  /\ balanceCache = EmptyMap
  /\ pendingRequests = EmptyMap
  /\ debounceTimers = EmptyMap
  /\ requests = <<>>
  /\ callers = [c \in 1..MaxCallers |-> IdleCaller]
  /\ balances = [pc |-> "idle", leaves |-> {}, isStale |-> FALSE]
  /\ network = [fetches |-> EmptyMap, http |-> 0]

IdleQuoteCall ==
  [ pc |-> "idle", params |-> [fromAmount |-> 0, slippage |-> -1],
    outcome |-> "none", quote |-> [id |-> 0, expiresAt |-> 0], error |-> "",
    \* not in the code: the error of the aggregator call, when it failed, and
    \* the entry the cache held for the key at that moment
    failure |-> "", failedAt |-> 0, held |-> [id |-> 0, expiresAt |-> 0] ]

\* detectUsdcArrivalFromSnapshot before it is called
IdleArrival ==
  [ pc |-> "idle", previousBalance |-> 0, expectedAmount |-> -1, timeout |-> 0,
    onPoll |-> "none", startTime |-> 0, attempt |-> 0, lastBalance |-> 0,
    result |-> [detected |-> FALSE, amount |-> 0, currentBalance |-> 0],
    error |-> [code |-> "", lastBalance |-> 0],
    \* not in the code: what each poll so far came back with
    polls |-> <<>> ]

\* monitorL1Confirmation before it is called
IdleL1 ==
  [ pc |-> "idle", expectedAmount |-> 0, pollInterval |-> 0,
    onProgress |-> "none", onTimeoutWarning |-> "none",
    startTime |-> 0, timeout |-> 0, timeoutWarningEmitted |-> FALSE,
    cancelled |-> FALSE, completed |-> FALSE, attempt |-> 0, elapsed |-> 0,
    initialBalance |-> 0, currentBalance |-> 0,
    result |-> [confirmed |-> FALSE, amount |-> 0, finalBalance |-> 0,
                confirmationTime |-> 0],
    error |-> [name |-> "", reason |-> "", elapsed |-> 0],
    \* not in the code: what each poll so far came back with, the calls of
    \* onTimeoutWarning and of extendTimeout so far, and the calls of
    \* onTimeoutWarning since the start or the last extendTimeout
    polls |-> <<>>, warnings |-> 0, extensions |-> 0, activationWarnings |-> 0 ]

\* listeners and onceListeners hold no Set for the event; sets are the Sets
\* that once() created, each in insertion order, and onceRef is the one that
\* onceListeners maps the event to (0 for none); stack holds the emit() calls
\* in progress, the innermost last
IdleEmitter ==
  [ listeners |-> <<>>, sets |-> <<>>, onceRef |-> 0, stack |-> <<>>,
    kind |-> [l \in 1..MaxListeners |-> "none"],
    \* not in the code: how each callback was registered, the emit() calls
    \* begun, the invocations made, the emit() calls that returned, the errors
    \* logged, and whether an exception left emit()
    once |-> [l \in 1..MaxListeners |-> FALSE],
    emits |-> 0, log |-> <<>>, done |-> <<>>, errors |-> 0, escaped |-> FALSE ]

NoValidation == [valid |-> FALSE, needsApproval |-> FALSE, error |-> ""]

IdleDeposit ==
  [ pc |-> "idle", amount |-> 0, infiniteApproval |-> FALSE, throwsOn |-> "none",
    validation |-> NoValidation, approvalTxHash |-> 0, exc |-> "", error |-> "",
    \* not in the code: the allowance that the validation read, the receipt
    \* of the approval, the transactions the signer sent, the statuses reported
    allowance |-> -1, approvalReceipt |-> "none", sent |-> <<>>, statuses |-> <<>> ]

Init ==
  /\ InitBalance
  /\ emitter = IdleEmitter
  /\ deposit = IdleDeposit
  /\ arrival = IdleArrival
  /\ l1 = IdleL1
  /\ quoteCache = EmptyMap
  /\ quoteCalls = [q \in 1..MaxQuoteCalls |-> IdleQuoteCall]
  /\ now = StartTime
  /\ executions = <<>>
  /\ pc = [e \in ExecIds |-> "idle"]
  /\ ctx = [e \in ExecIds |-> IdleCtx]
  /\ events = [e \in ExecIds |-> <<>>]
  /\ writes = [e \in ExecIds |-> <<>>]
  /\ result = [e \in ExecIds |-> NoResult]
  /\ faults = 0
  /\ created = 0

\* one execute() call, with any quote and any callbacks
Execute == ExecuteWith(1, QuotesAt(now), Configs)

\* concurrent execute() calls, each with a one-step quote and quiet callbacks
ExecuteConcurrently ==
  \E e \in ExecIds :
     ExecuteWith(e, { q \in WellFormedQuotes(now) :
                        Len(q.steps) = 1 /\ q.expiresAt = now + 1 }, {NoThrow})

Run ==
  \/ \E e \in ExecIds : AddressSettles(e)
  \/ \E e \in ExecIds : StepTransactionSettles(e)
  \/ \E e \in ExecIds : ApprovalNeededSettles(e)
  \/ \E e \in ExecIds : ApprovalTransactionSettles(e)
  \/ \E e \in ExecIds : SendApprovalSettles(e)
  \/ \E e \in ExecIds : ApprovalWaitDone(e)
  \/ \E e \in ExecIds : SendMainSettles(e)
  \/ \E e \in ExecIds : PollSettles(e)
  \/ \E e \in ExecIds : PollSleepDone(e)
  \/ Tick
  \/ LateTick

Next == Execute \/ Run

Spec == Init /\ [][Next]_vars

\* every request and every signer call settles, every timer fires
SpecLive ==
  /\ Spec
  /\ WF_vars(\E e \in ExecIds : PollSettles(e))
  /\ WF_vars(\E e \in ExecIds : PollSleepDone(e))
  /\ WF_vars(Tick)

NextConcurrent == ExecuteConcurrently \/ Run

SpecConcurrent == Init /\ [][NextConcurrent]_vars

(***************************************************************************)
(* Properties of one execute() call.                                       *)
(***************************************************************************)
Entry(e) == StoreGet(executions, e)

Finished(e) == pc[e] \in {"returned", "rejected"}

EventTypes(e) == { events[e][p].type : p \in DOMAIN events[e] }

\* C1: once execute() has opened a registry entry it never rejects: the caller
\* receives a result, and a failed result carries the error and the executionId
C1_NeverRejectsOnceOpened ==
  \A e \in ExecIds :
     writes[e] # <<>> /\ Finished(e) =>
        /\ result[e].outcome = "returned"
        /\ result[e].executionId = e
        /\ result[e].status = "failed" => result[e].error # NoError

C3_TerminalAbsorbing ==
  \A e \in ExecIds :
     \A k \in 1..(Len(writes[e]) - 1) :
        IsTerminal(writes[e][k].status) =>
           /\ writes[e][k + 1].status = writes[e][k].status
           /\ writes[e][k + 1].progress = writes[e][k].progress
           /\ writes[e][k + 1].stepStatus = writes[e][k].stepStatus

\* C4: between two successive writes of an entry that is not yet terminal, the
\* stored progress does not decrease
C4_ProgressMonotone ==
  \A e \in ExecIds :
     \A k \in 1..(Len(writes[e]) - 1) :
        ~ IsTerminal(writes[e][k].status) =>
           writes[e][k + 1].progress >= writes[e][k].progress

C4_ProgressRoseTwice ==
  \E e \in ExecIds :
     /\ pc[e] = "returned" /\ result[e].status = "completed"
     /\ \E j, k \in DOMAIN writes[e] :
          /\ j < k
          /\ 0 < writes[e][j].progress
          /\ writes[e][j].progress < writes[e][k].progress
          /\ writes[e][k].progress < 100

\* the ExecutionStatus a STATUS_CHANGED event was published for
StatusOf(event) ==
  CASE event.substatus = "Waiting for token approval..." -> "approving"
    [] event.substatus = "Token approval confirmed" -> "approved"
    [] event.substatus \in { ExecutingMessage(ty) :
                               ty \in {"approval", "swap", "bridge", "deposit"} } ->
         "executing"
    [] event.substatus \in { "Waiting for bridge confirmation...",
                             mapSubstatusToMessage("PENDING") } -> "bridging"
    [] event.status = "completed" -> "completed"
    [] OTHER -> "failed"

Label(event) ==
  CASE event.type = "STATUS_CHANGED" -> <<event.type, StatusOf(event)>>
    [] event.type \in {"TRANSACTION_SENT", "TRANSACTION_CONFIRMED"} ->
         <<event.type, event.stepType>>
    [] OTHER -> <<event.type, "">>

Labels(evs) == [p \in DOMAIN evs |-> Label(evs[p])]

NotStepChanged(event) == event.type # "STEP_CHANGED"

\* a one-step quote that needed approval and succeeded
ApprovedOneStepSuccess(e) ==
  /\ pc[e] = "returned" /\ result[e].status = "completed"
  /\ Len(ctx[e].quote.steps) = 1
  /\ "APPROVAL_REQUIRED" \in EventTypes(e)

ListedOrder ==
  << <<"EXECUTION_STARTED", "">>, <<"STATUS_CHANGED", "approving">>,
     <<"APPROVAL_REQUIRED", "">>, <<"TRANSACTION_SENT", "approval">>,
     <<"TRANSACTION_CONFIRMED", "approval">>, <<"STATUS_CHANGED", "executing">>,
     <<"TRANSACTION_SENT", "bridge">>, <<"STATUS_CHANGED", "bridging">>,
     <<"TRANSACTION_CONFIRMED", "bridge">>, <<"STATUS_CHANGED", "completed">>,
     <<"EXECUTION_COMPLETED", "">> >>

\* the published order, STEP_CHANGED left out, when n polls reported PENDING
PublishedOrder(n) ==
  << <<"EXECUTION_STARTED", "">>, <<"STATUS_CHANGED", "approving">>,
     <<"APPROVAL_REQUIRED", "">>, <<"TRANSACTION_SENT", "approval">>,
     <<"STATUS_CHANGED", "approved">>,
     <<"TRANSACTION_CONFIRMED", "approval">>, <<"STATUS_CHANGED", "executing">>,
     <<"TRANSACTION_SENT", "bridge">> >>
  \o [k \in 1..(n + 1) |-> <<"STATUS_CHANGED", "bridging">>]
  \o << <<"TRANSACTION_CONFIRMED", "bridge">>, <<"STATUS_CHANGED", "completed">>,
        <<"EXECUTION_COMPLETED", "">> >>

\* C6 as stated: for a one-step quote that needs approval and succeeds, the
\* published events are exactly the eleven listed, in the listed order
C6_ListedOrderExactly ==
  \A e \in ExecIds :
     ApprovedOneStepSuccess(e) => Labels(events[e]) = ListedOrder

\* C6: for a one-step quote that needs approval and succeeds, the published
\* events other than STEP_CHANGED are the listed ones in the listed order, with
\* STATUS_CHANGED(approved) between TRANSACTION_SENT(approval) and
\* TRANSACTION_CONFIRMED(approval), and STATUS_CHANGED(bridging) once more for
\* every poll that reported PENDING
C6_PublishedOrder ==
  \A e \in ExecIds :
     ApprovedOneStepSuccess(e) =>
        \E n \in 0..ctx[e].polls :
           Labels(SelectSeq(events[e], NotStepChanged)) = PublishedOrder(n)

C6_ApprovedAfterPendingPoll ==
  \E e \in ExecIds :
     /\ ApprovedOneStepSuccess(e)
     /\ Labels(SelectSeq(events[e], NotStepChanged)) = PublishedOrder(1)

\* positions of the events of one type that carry txHash h
At(e, type, h) ==
  { p \in DOMAIN events[e] : events[e][p].type = type /\ events[e][p].txHash = h }

Count(e, type) == Cardinality({ p \in DOMAIN events[e] : events[e][p].type = type })

SentHashes(e) ==
  { events[e][p].txHash :
      p \in { q \in DOMAIN events[e] :
                events[e][q].type \in {"TRANSACTION_SENT", "TRANSACTION_CONFIRMED"} } }

\* the transaction hashes of the main transactions of the non-deposit steps
MainHashes(e) ==
  { TxHashOf(e, k - 1, 2) :
      k \in { j \in DOMAIN ctx[e].quote.steps : ctx[e].quote.steps[j].type # "deposit" } }

\* C7: on a successful run every non-deposit step has exactly one TRANSACTION_SENT
\* and one TRANSACTION_CONFIRMED for its transaction, every approval asked for has
\* exactly one more such pair, there are no others, and each TRANSACTION_SENT
\* comes before the TRANSACTION_CONFIRMED of the same transaction
C7_SentConfirmedPairs ==
  \A e \in ExecIds :
     pc[e] = "returned" /\ result[e].status = "completed" =>
        /\ MainHashes(e) \subseteq SentHashes(e)
        /\ Cardinality(SentHashes(e) \ MainHashes(e)) = Count(e, "APPROVAL_REQUIRED")
        /\ Count(e, "TRANSACTION_SENT") = Cardinality(SentHashes(e))
        /\ Count(e, "TRANSACTION_CONFIRMED") = Cardinality(SentHashes(e))
        /\ \A h \in SentHashes(e) :
              \E p \in At(e, "TRANSACTION_SENT", h),
                 q \in At(e, "TRANSACTION_CONFIRMED", h) : p < q

C7_TwoStepsOneApproval ==
  \E e \in ExecIds :
     /\ pc[e] = "returned" /\ result[e].status = "completed"
     /\ Cardinality(MainHashes(e)) = 2
     /\ Count(e, "APPROVAL_REQUIRED") = 1
     /\ Count(e, "TRANSACTION_CONFIRMED") = 3

\* the errors raised inside the step loop
StepLoopErrors ==
  { "Failed to get step transaction", "Failed to get approval transaction",
    "User rejected approval transaction", "User rejected transaction",
    "insufficient funds for gas", "Transaction failed",
    "Transaction timed out waiting for completion" }

\* C9: when a run with quiet callbacks fails on an error raised inside the step
\* loop, the registry holds the step being processed as 'failed' and holds the error
C9_LoopErrorFailsStep ==
  \A e \in ExecIds :
     /\ pc[e] = "returned" /\ result[e].status = "failed"
     /\ ctx[e].cfg = NoThrow
     /\ result[e].error.message \in StepLoopErrors
     => /\ Entry(e).steps[ctx[e].i + 1].status = "failed"
        /\ Entry(e).error = result[e].error

\* C10: when the signer answers the main transaction with "User denied
\* transaction signature", execute() returns 'failed' with a UserRejectedError,
\* getStatus reports recoverable = false, and no EXECUTION_COMPLETED is published
C10_UserDenialNotRecoverable ==
  \A e \in ExecIds :
     /\ Finished(e)
     /\ ctx[e].signerError.message = "User denied transaction signature"
     => /\ result[e].outcome = "returned" /\ result[e].status = "failed"
        /\ result[e].error.name = "UserRejectedError"
        /\ getStatus(executions, e).error.recoverable = FALSE
        /\ "EXECUTION_COMPLETED" \notin EventTypes(e)

\* the call was opened with callbacks that throw, and nothing else went wrong:
\* the signer, the aggregator and the timers all did their part
OnlyCallbacksThrew(e) ==
  /\ StoreHas(executions, e)
  /\ ctx[e].cfg # NoThrow
  /\ faults = 1

\* C11: callbacks are best-effort: a call in which nothing but a caller-supplied
\* callback throws ends as it does with quiet callbacks, returning 'completed'
\* with the registry entry 'completed' and EXECUTION_COMPLETED published
C11_CallbackThrowHarmless ==
  \A e \in ExecIds :
     Finished(e) /\ OnlyCallbacksThrew(e)
     => /\ result[e].outcome = "returned" /\ result[e].status = "completed"
        /\ Entry(e).status = "completed"
        /\ "EXECUTION_COMPLETED" \in EventTypes(e)
        /\ "EXECUTION_FAILED" \notin EventTypes(e)

\* the steps of type 'deposit' of the quote of call e
DepositSteps(e) ==
  { k \in DOMAIN ctx[e].quote.steps : ctx[e].quote.steps[k].type = "deposit" }

InStepBody(e) ==
  pc[e] \in {"getStepTransaction", "checkApprovalNeeded", "getApprovalTransaction",
             "sendApproval", "approvalWait", "sendMain", "pollTransactionStatus",
             "pollSleep"}

\* C25: the loop skips a step of type 'deposit': the call never is inside the
\* body of the loop for it, no TRANSACTION_SENT or TRANSACTION_CONFIRMED is
\* emitted for a transaction of it, and neither the registry nor a
\* STEP_CHANGED event ever shows it as active
C25_DepositStepSkipped ==
  \A e \in ExecIds : \A k \in DepositSteps(e) :
     /\ InStepBody(e) => ctx[e].i + 1 # k
     /\ \A p \in DOMAIN events[e] :
           /\ events[e][p].type \in {"TRANSACTION_SENT", "TRANSACTION_CONFIRMED"}
                => events[e][p].txHash \notin {TxHashOf(e, k - 1, 1), TxHashOf(e, k - 1, 2)}
           /\ (events[e][p].type = "STEP_CHANGED" /\ events[e][p].stepId = k)
                => events[e][p].status = "pending"
     /\ \A p \in DOMAIN writes[e] : writes[e][p].stepStatus[k] # "active"

\* a completed run of a quote with a bridge step and then a deposit step
C25_BridgeThenDeposit ==
  \E e \in ExecIds :
     /\ pc[e] = "returned" /\ result[e].status = "completed"
     /\ DepositSteps(e) = {2}
     /\ Count(e, "TRANSACTION_SENT") >= 1
     /\ \E p \in DOMAIN events[e] :
           events[e][p].type = "STEP_CHANGED" /\ events[e][p].stepId = 2

InWait(e) == pc[e] \in {"pollTransactionStatus", "pollSleep"}

\* call e leaves waitForCompletion in this step
LeavesWait(e) ==
  /\ InWait(e)
  /\ pc'[e] \notin {"pollTransactionStatus", "pollSleep"} \/ ctx'[e].i # ctx[e].i

\* the wait of e ended with the status DONE: the transaction is confirmed
EndedDone(e) ==
  /\ Len(events'[e]) > Len(events[e])
  /\ events'[e][Len(events[e]) + 1].type = "TRANSACTION_CONFIRMED"
  /\ events'[e][Len(events[e]) + 1].txHash = ctx[e].txHash

\* the wait of e ended with the TransactionFailedError of this message: the
\* catch of the step marks the step failed with it and, with callbacks that
\* return, execute() returns it
EndedFailed(e, message) ==
  /\ Len(writes'[e]) > Len(writes[e])
  /\ writes'[e][Len(writes[e]) + 1].stepStatus[ctx[e].i + 1] = "failed"
  /\ ctx'[e].stepStatuses[ctx[e].i + 1].error = message
  /\ ctx[e].cfg = NoThrow =>
       /\ pc'[e] = "returned"
       /\ result'[e].status = "failed"
       /\ result'[e].error = Err("TransactionFailedError", message)

C29_ErrorsNormalized ==
  \A e \in ExecIds :
     /\ pc[e] = "returned" /\ result[e].status = "failed"
     /\ ctx[e].cfg = NoThrow
     => /\ normalizeError(result[e].error) = result[e].error
        /\ StoreHas(executions, e) =>
             normalizeError(Entry(e).error) = Entry(e).error

\* the changes of a stored step status that the registry's type allows
StepTransitions ==
  { <<"pending", "active">>, <<"active", "completed">>, <<"active", "failed">> }

\* C30: every step status written to the registry is one of pending, active,
\* completed and failed, and between two successive writes a step's status
\* stays as it is or changes pending -> active, active -> completed or
\* active -> failed
C30_StepStatusLifecycle ==
  \A e \in ExecIds :
     \A p \in DOMAIN writes[e] :
        \A k \in DOMAIN writes[e][p].stepStatus :
           /\ writes[e][p].stepStatus[k] \in {"pending", "active", "completed", "failed"}
           /\ p > 1 =>
                \/ writes[e][p].stepStatus[k] = writes[e][p - 1].stepStatus[k]
                \/ <<writes[e][p - 1].stepStatus[k], writes[e][p].stepStatus[k]>>
                     \in StepTransitions

\* C32: a call given a well-formed quote rejects with QuoteExpiredError
\* exactly when the quote's expiresAt is not after the clock (expiresAt <=
\* now, the clock standing at expiresAt included)
C32_ExpiredAtExpiresAt ==
  \A e \in ExecIds :
     pc[e] # "idle" /\ ~ ctx[e].given.malformed =>
        (ctx[e].given.due <=>
           pc[e] = "rejected" /\ result[e].error.name = "QuoteExpiredError")

\* the positions of events[e] where a step is published as failed
FailedAt(e) ==
  { p \in DOMAIN events[e] :
       /\ events[e][p].type = "STEP_CHANGED"
       /\ events[e][p].status = "failed" }

\* C33: once a step of an execution is marked failed, no step is started and
\* no transaction is asked for or sent after it, the call is over, and the
\* registry (and the result, when the call returns one) ends 'failed'
C33_FailedStepEndsPipeline ==
  \A e \in ExecIds :
     \A p \in FailedAt(e) :
        /\ \A q \in (p + 1)..Len(events[e]) :
              /\ events[e][q].type \notin
                   {"STEP_CHANGED", "APPROVAL_REQUIRED", "TRANSACTION_SENT",
                    "TRANSACTION_CONFIRMED", "EXECUTION_COMPLETED"}
        /\ Finished(e)
        /\ Entry(e).status = "failed"
        /\ pc[e] = "returned" => result[e].status = "failed"

\* the first of two steps failed and the second was never started
C33_SecondStepNeverStarted ==
  /\ FailedAt(1) # {}
  /\ pc[1] = "returned"
  /\ Len(Entry(1).steps) = 2
  /\ Entry(1).steps[1].status = "failed"
  /\ Entry(1).steps[2].status = "pending"

\* C36: while a call is between its start and its end, the currentStep that
\* getStatus reports is the step the loop is processing
C36_CurrentStepFollowsLoop ==
  \A e \in ExecIds :
     pc[e] \notin {"idle", "returned", "rejected"} /\ StoreHas(executions, e) =>
        /\ getStatus(executions, e).currentStep.index = ctx[e].i
        /\ Entry(e).currentStepIndex = ctx[e].i

(***************************************************************************)
(* Concurrent execute() calls.                                             *)
(***************************************************************************)
\* execution e takes no part in the step
Idles(e) == pc'[e] = pc[e] /\ ctx'[e] = ctx[e]

\* a step that e takes no part in leaves e's registry entry as it is
OthersLeaveEntryAlone ==
  \A e \in ExecIds :
     Idles(e) /\ StoreHas(executions, e) =>
        StoreHas(executions', e) /\ StoreGet(executions', e) = StoreGet(executions, e)

\* the registry entry of e holds what e wrote last, and the result of e is the
\* outcome of its own pipeline
OwnOutcome ==
  \A e \in ExecIds :
     /\ StoreHas(executions, e) =>
          /\ writes[e] # <<>>
          /\ Snapshot(executions, e) = writes[e][Len(writes[e])]
          /\ Entry(e).txHash = ctx[e].finalTxHash
     /\ pc[e] = "returned" =>
          /\ result[e].executionId = e
          /\ result[e].steps = ctx[e].stepStatuses
          /\ result[e].txHash = ctx[e].finalTxHash
          /\ result[e].txHash \in {Null} \cup MainHashes(e)
          /\ LET last == events[e][Len(events[e])]
             IN  IF result[e].status = "completed"
                 THEN /\ last.type = "EXECUTION_COMPLETED"
                      /\ Entry(e).status = "completed"
                 ELSE /\ last.type = "EXECUTION_FAILED"
                      /\ last.error = result[e].error
                      /\ Entry(e).status = "failed"
                      /\ Entry(e).error = result[e].error

NearCapacity == Len(executions) + Headroom >= maxExecutions

CallTimes ==
  IF NearCapacity
  THEN { t \in {now, now + oneHour + 1} : t <= StartTime + MaxAdvance * (oneHour + 1) }
  ELSE {now}

Tracked == { id \in 1..MaxTracked : StoreHas(executions, id) }

CreateEntry ==
  /\ created < maxExecutions + ExtraCreates
  /\ \E t \in CallTimes :
       /\ now' = t
       /\ executions' = StoreCreate(executions, t,
                          [ executionId |-> created + 1, quoteId |-> "q1",
                            steps |-> <<[id |-> 1, type |-> "bridge"]>>,
                            fromAmount |-> FROM_AMOUNT, toAmount |-> TO_AMOUNT,
                            fromChainId |-> SOURCE_CHAIN_ID,
                            toChainId |-> HYPEREVM_CHAIN_ID, estimatedTime |-> 120 ])
  /\ created' = created + 1
  /\ UNCHANGED <<pc, ctx, events, writes, result, faults, serviceVars>>

UpdateEntry ==
  /\ NearCapacity
  /\ \E id \in Tracked, status \in {"in_progress", "completed", "failed"}, t \in CallTimes :
       /\ now' = t
       /\ executions' = StoreUpdate(executions, t, id, [status |-> status])
  /\ UNCHANGED <<pc, ctx, events, writes, result, faults, created, serviceVars>>

DeleteEntry ==
  /\ NearCapacity
  /\ \E id \in Tracked : executions' = MapDelete(executions, id)
  /\ UNCHANGED <<now, pc, ctx, events, writes, result, faults, created, serviceVars>>

NextStore == CreateEntry \/ UpdateEntry \/ DeleteEntry

SpecStore == Init /\ [][NextStore]_vars

\* C5: the registry never holds more than 100 entries
C5_AtMostHundred == Len(executions) <= maxExecutions

\* the registry is full again after a create that found it full
C5_FullAfterCleanup ==
  /\ Len(executions) = maxExecutions
  /\ created > maxExecutions

Ids(store) == { store[k].executionId : k \in 1..Len(store) }

\* what an insertion at time t evicts from a registry at capacity: the
\* terminal entries last updated more than an hour before t and, when the
\* others still fill the registry, a quarter of the capacity of these, none
\* of them created after an entry that stays
EvictsByPolicy(store, evicted, t) ==
  LET old == { k \in 1..Len(store) :
                 /\ store[k].status \in {"completed", "failed"}
                 /\ t - store[k].updatedAt > oneHour }
      young == (1..Len(store)) \ old
      gone == { k \in 1..Len(store) : store[k].executionId \in evicted }
  IN  IF Cardinality(young) < maxExecutions
      THEN gone = old
      ELSE /\ old \subseteq gone
           /\ Cardinality(gone \ old) = maxExecutions \div 4
           /\ \A k \in gone \ old : \A j \in young \ gone :
                 store[k].createdAt <= store[j].createdAt

\* C26: an insertion below capacity evicts nothing; an insertion at capacity
\* evicts the terminal entries older than an hour and, only if the registry
\* is still at capacity after that, the oldest quarter by createdAt
C26_EvictionPolicy ==
  [][created' = created + 1 =>
       /\ Ids(executions') = (Ids(executions) \ (Ids(executions) \ Ids(executions')))
                                \cup {created + 1}
       /\ IF Len(executions) < maxExecutions
          THEN Ids(executions) \subseteq Ids(executions')
          ELSE EvictsByPolicy(executions, Ids(executions) \ Ids(executions'), now')]_vars

\* the registry after an insertion that evicted the oldest quarter
C26_QuarterEvicted ==
  /\ created = maxExecutions + 1
  /\ Len(executions) = maxExecutions - maxExecutions \div 4 + 1
  /\ Ids(executions) = (maxExecutions \div 4 + 1)..(maxExecutions + 1)

\* C37: an insertion never evicts an entry whose status is pending or
\* in_progress: every such entry is still in the registry after it
C37_RunningNeverEvicted ==
  [][created' = created + 1 =>
       \A k \in 1..Len(executions) :
          executions[k].status \in {"pending", "in_progress"} =>
             getStatus(executions', executions[k].executionId).found]_vars

(***************************************************************************)
(* SDKEventEmitter, for one event.  A call of emit() runs in steps, one per *)
(* listener it invokes, so that a listener can call emit() again in        *)
(* between; on(), once() and emit() from outside are called only while no  *)
(* emit() is in progress.                                                  *)
(***************************************************************************)
\* what a callback does when it is invoked: it returns, it throws, or it
\* emits the event again and returns
ListenerKinds == {"returns", "throws", "emits"}

Range(seq) == { seq[k] : k \in 1..Len(seq) }

\* Set.prototype.add
SetAdd(set, l) == IF l \in Range(set) THEN set ELSE Append(set, l)

on(em, l) == [em EXCEPT !.listeners = SetAdd(@, l)]

once(em, l) ==
  IF em.onceRef = 0
  THEN [em EXCEPT !.sets = Append(@, <<l>>), !.onceRef = Len(em.sets) + 1]
  ELSE [em EXCEPT !.sets[em.onceRef] = SetAdd(@, l)]

\* emit() is entered
emit(em) ==
  [em EXCEPT !.emits = @ + 1,
             !.stack = Append(@, [id |-> em.emits + 1, phase |-> "listeners",
                                  set |-> 0, pos |-> 0])]

\* emit() returns
emitReturns(em) ==
  LET f == em.stack[Len(em.stack)]
  IN  [em EXCEPT !.stack = SubSeq(@, 1, Len(@) - 1),
                 !.done = Append(@, [id |-> f.id, listeners |-> em.listeners,
                                     set |-> f.set])]

InvokeUnguarded(em, l) ==
  LET top == Len(em.stack)
      called == [em EXCEPT !.stack[top].pos = @ + 1,
                           !.log = Append(@, [emission |-> em.stack[top].id,
                                              listener |-> l])]
  IN  IF em.kind[l] = "throws"
      THEN [called EXCEPT !.stack = <<>>, !.escaped = TRUE]
      ELSE IF em.kind[l] = "emits" /\ em.emits < MaxEmits THEN emit(called)
      ELSE called

\* try { listener(data) } catch (error) { console.error(...) }
Invoke(em, l) ==
  LET top == Len(em.stack)
      called == [em EXCEPT !.stack[top].pos = @ + 1,
                           !.log = Append(@, [emission |-> em.stack[top].id,
                                              listener |-> l])]
  IN  IF em.kind[l] = "throws" THEN [called EXCEPT !.errors = @ + 1]
      ELSE IF em.kind[l] = "emits" /\ em.emits < MaxEmits THEN emit(called)
      ELSE called

\* the next step of the innermost emit(): the next listener of the Set it
\* iterates, or the end of the loop
emitStep(em) ==
  LET top == Len(em.stack)
      f == em.stack[top]
  IN  IF f.phase = "listeners"
      THEN IF f.pos < Len(em.listeners) THEN Invoke(em, em.listeners[f.pos + 1])
           ELSE IF em.onceRef = 0 THEN emitReturns(em)
           ELSE [em EXCEPT !.stack[top] = [f EXCEPT !.phase = "once",
                                                    !.set = em.onceRef, !.pos = 0]]
      ELSE IF f.pos < Len(em.sets[f.set]) THEN Invoke(em, em.sets[f.set][f.pos + 1])
           ELSE emitReturns([em EXCEPT !.onceRef = 0])

Unregistered == { l \in 1..MaxListeners : emitter.kind[l] = "none" }

On ==
  /\ emitter.stack = <<>>
  /\ \E l \in Unregistered, kind \in ListenerKinds :
        emitter' = on([emitter EXCEPT !.kind[l] = kind], l)
  /\ UNCHANGED <<now, faults, nonEmitterVars>>

Once ==
  /\ emitter.stack = <<>>
  /\ \E l \in Unregistered, kind \in ListenerKinds :
        emitter' = once([emitter EXCEPT !.kind[l] = kind, !.once[l] = TRUE], l)
  /\ UNCHANGED <<now, faults, nonEmitterVars>>

EmitCalled ==
  /\ emitter.stack = <<>>
  /\ ~ emitter.escaped
  /\ emitter.emits < MaxEmits
  /\ emitter' = emit(emitter)
  /\ UNCHANGED <<now, faults, nonEmitterVars>>

EmitStep ==
  /\ emitter.stack # <<>>
  /\ emitter' = emitStep(emitter)
  /\ UNCHANGED <<now, faults, nonEmitterVars>>

NextEmitter == On \/ Once \/ EmitCalled \/ EmitStep

SpecEmitter == Init /\ [][NextEmitter]_vars

\* the callbacks invoked for emission n
InvokedFor(n) ==
  { emitter.log[k].listener :
      k \in { j \in 1..Len(emitter.log) : emitter.log[j].emission = n } }

\* C34: no exception of a listener leaves emit(), and every emit() call that
\* has returned has invoked every listener of the event, and every once
\* listener of the Set it iterated, whatever the listeners before them did
C34_ListenerErrorsContained ==
  /\ ~ emitter.escaped
  /\ \A k \in 1..Len(emitter.done) :
        LET d == emitter.done[k]
        IN  /\ Range(d.listeners) \subseteq InvokedFor(d.id)
            /\ d.set # 0 => Range(emitter.sets[d.set]) \subseteq InvokedFor(d.id)

\* an emit() call has returned in which the first listener threw and the
\* second listener and a once listener were invoked after it
C34_InvokedAfterThrow ==
  /\ Len(emitter.done) > 0
  /\ emitter.errors > 0
  /\ Len(emitter.listeners) = 2
  /\ emitter.kind[emitter.listeners[1]] = "throws"
  /\ emitter.listeners[2] \in InvokedFor(emitter.done[1].id)
  /\ emitter.done[1].set # 0

\* C35: a callback registered with once() is invoked for at most one
\* emission of the event
C35_OnceInvokedOnce ==
  \A l \in 1..MaxListeners :
     emitter.once[l] =>
        Cardinality({ emitter.log[k].emission :
                        k \in { j \in 1..Len(emitter.log) :
                                  emitter.log[j].listener = l } }) <= 1

(***************************************************************************)
(* The deposit executor.  Amounts are in the smallest unit of USDC; gas     *)
(* balances are in units of 100000000 wei, the gas price that               *)
(* validateDepositRequirements assumes.                                     *)
(***************************************************************************)
MINIMUM_DEPOSIT_AMOUNT == 5000000
DEFAULT_DEPOSIT_GAS_LIMIT == 150000
DEFAULT_APPROVAL_GAS_LIMIT == 60000

estimatedGasCost == DEFAULT_APPROVAL_GAS_LIMIT + DEFAULT_DEPOSIT_GAS_LIMIT

DepositAmounts ==
  { MINIMUM_DEPOSIT_AMOUNT - 1, MINIMUM_DEPOSIT_AMOUNT, MINIMUM_DEPOSIT_AMOUNT + 1 }

\* the status on which onStatusChange throws, or the callback that throws
DepositThrows ==
  { "none", "approving", "approval_pending", "depositing", "onApprovalSubmitted",
    "onDepositSubmitted" }

\* what the signer and the chain answer a sendTransaction with when they fail
DepositSignerErrors == { "User denied transaction signature", "execution reverted" }

validateDepositRequirements(amount, usdcBalance, gasBalance, currentAllowance) ==
  IF amount < MINIMUM_DEPOSIT_AMOUNT
  THEN [valid |-> FALSE, needsApproval |-> TRUE, error |-> "Minimum deposit"]
  ELSE IF usdcBalance < amount
  THEN [ valid |-> FALSE, needsApproval |-> currentAllowance < amount,
         error |-> "Insufficient USDC balance" ]
  ELSE IF gasBalance < estimatedGasCost
  THEN [ valid |-> FALSE, needsApproval |-> currentAllowance < amount,
         error |-> "Insufficient HYPE for gas fees" ]
  ELSE [valid |-> TRUE, needsApproval |-> currentAllowance < amount, error |-> ""]

\* a throw in the call d: the first exception is the one in flight
DepositRaise(d, error) == IF d.exc # "" THEN d ELSE [d EXCEPT !.exc = error]

\* updateStatus of executeDeposit: onStatusChange is called directly
depositUpdateStatus(d, status) ==
  IF d.exc # "" THEN d
  ELSE DepositRaise([d EXCEPT !.statuses = Append(@, status)],
                    IF d.throwsOn = status THEN "Error" ELSE "")

\* a callback other than onStatusChange
DepositCallback(d, name) ==
  IF d.exc # "" THEN d
  ELSE DepositRaise(d, IF d.throwsOn = name THEN "Error" ELSE "")

\* the promise of executeDeposit rejects, or the call goes on to next
DepositSettle(d, next) ==
  IF d.exc # "" THEN [d EXCEPT !.pc = "rejected", !.error = d.exc, !.exc = ""]
  ELSE [d EXCEPT !.pc = next]

\* isUserRejection of token.ts, of the messages a sendTransaction fails with
depositIsUserRejection(message) == message = "User denied transaction signature"

\* the catch blocks around the approval and around the deposit transaction
DepositSendFailed(d, message) ==
  DepositRaise(d, IF depositIsUserRejection(message) THEN "UserRejectedError"
                  ELSE "Error")

\* executeDeposit after the pre-flight validation
AfterValidation(d) ==
  IF ~ d.validation.valid
  THEN DepositSettle(DepositRaise(d,
         IF d.validation.error = "Insufficient USDC balance"
         THEN "InsufficientBalanceError"
         ELSE IF d.validation.error = "Insufficient HYPE for gas fees"
         THEN "InsufficientGasError" ELSE "DepositTransactionError"), "none")
  ELSE IF d.validation.needsApproval
  THEN DepositSettle(depositUpdateStatus(depositUpdateStatus(d, "checking_allowance"),
                                         "approving"), "sendApproval")
  ELSE DepositSettle(depositUpdateStatus(d, "depositing"), "sendDeposit")

ApprovalReceiptUnchecked(d, status) ==
  DepositSettle(depositUpdateStatus(
                  depositUpdateStatus([d EXCEPT !.approvalReceipt = status],
                                      "approval_confirmed"),
                  "depositing"), "sendDeposit")

\* approveUsdcForDeposit from the receipt on, and executeDeposit up to the
\* deposit transaction
ApprovalReceipt(d, status) ==
  IF status = "reverted"
  THEN DepositSettle(DepositRaise([d EXCEPT !.approvalReceipt = status],
                                  "DepositTransactionError"), "none")
  ELSE DepositSettle(depositUpdateStatus(
                       depositUpdateStatus([d EXCEPT !.approvalReceipt = status],
                                           "approval_confirmed"),
                       "depositing"), "sendDeposit")

\* executeDeposit(signer, options) up to "await validateDepositRequirements"
ExecuteDeposit ==
  /\ deposit.pc = "idle"
  /\ \E validAddress \in BOOLEAN, amount \in DepositAmounts,
        infiniteApproval \in BOOLEAN, throwsOn \in DepositThrows :
        LET d == [deposit EXCEPT !.amount = amount,
                                 !.infiniteApproval = infiniteApproval,
                                 !.throwsOn = throwsOn]
        IN  deposit' =
              IF ~ validAddress
              THEN DepositSettle(DepositRaise(d, "InvalidDepositAddressError"), "none")
              ELSE IF amount < MINIMUM_DEPOSIT_AMOUNT
              THEN DepositSettle(DepositRaise(d, "MinimumDepositError"), "none")
              ELSE DepositSettle(depositUpdateStatus(d, "checking_balance"),
                                 "validating")
  /\ UNCHANGED <<now, faults, nonDepositVars>>

\* the three reads of validateDepositRequirements settle
ValidationSettles ==
  /\ deposit.pc = "validating"
  /\ \/ deposit' = DepositSettle(DepositRaise(deposit, "NetworkError"), "none")
     \/ \E usdcBalance \in {deposit.amount - 1, deposit.amount},
           gasBalance \in {estimatedGasCost - 1, estimatedGasCost},
           currentAllowance \in {0, deposit.amount - 1, deposit.amount} :
           deposit' = AfterValidation(
                        [deposit EXCEPT
                           !.allowance = currentAllowance,
                           !.validation =
                              validateDepositRequirements(deposit.amount, usdcBalance,
                                                          gasBalance, currentAllowance)])
  /\ UNCHANGED <<now, faults, nonDepositVars>>

\* signer.sendTransaction of the approval settles
ApprovalSendSettles ==
  /\ deposit.pc = "sendApproval"
  /\ \/ \E message \in DepositSignerErrors :
           deposit' = DepositSettle(DepositSendFailed(deposit, message), "none")
     \/ LET d1 == [deposit EXCEPT
                     !.sent = Append(@, [fn |-> "approve",
                                         unlimited |-> deposit.infiniteApproval]),
                     !.approvalTxHash = 1]
            d2 == depositUpdateStatus(DepositCallback(d1, "onApprovalSubmitted"),
                                      "approval_pending")
        IN  deposit' = DepositSettle(d2, "approvalReceipt")
  /\ UNCHANGED <<now, faults, nonDepositVars>>

\* the receipt of the approval arrives, or waitForTransaction gives up
ApprovalReceiptSettles ==
  /\ deposit.pc = "approvalReceipt"
  /\ \/ deposit' = DepositSettle(DepositRaise(deposit, "NetworkError"), "none")
     \/ \E status \in {"success", "reverted"} :
           deposit' = ApprovalReceipt(deposit, status)
  /\ UNCHANGED <<now, faults, nonDepositVars>>

\* signer.sendTransaction of the deposit settles
DepositSendSettles ==
  /\ deposit.pc = "sendDeposit"
  /\ \/ \E message \in DepositSignerErrors :
           deposit' = DepositSettle(DepositSendFailed(deposit, message), "none")
     \/ LET d1 == [deposit EXCEPT !.sent = Append(@, [fn |-> "deposit",
                                                      unlimited |-> FALSE])]
            d2 == depositUpdateStatus(DepositCallback(d1, "onDepositSubmitted"),
                                      "deposit_pending")
        IN  deposit' = DepositSettle(d2, "depositReceipt")
  /\ UNCHANGED <<now, faults, nonDepositVars>>

\* the receipt of the deposit arrives, or waitForTransaction gives up
DepositReceiptSettles ==
  /\ deposit.pc = "depositReceipt"
  /\ \/ deposit' = DepositSettle(DepositRaise(deposit, "NetworkError"), "none")
     \/ deposit' = DepositSettle(
                     DepositRaise(depositUpdateStatus(deposit, "failed"),
                                  "DepositTransactionError"), "none")
     \/ deposit' = DepositSettle(
                     depositUpdateStatus(depositUpdateStatus(deposit, "deposit_confirmed"),
                                         "completed"), "resolved")
  /\ UNCHANGED <<now, faults, nonDepositVars>>

NextDeposit ==
  \/ ExecuteDeposit
  \/ ValidationSettles
  \/ ApprovalSendSettles
  \/ ApprovalReceiptSettles
  \/ DepositSendSettles
  \/ DepositReceiptSettles

SpecDeposit == Init /\ [][NextDeposit]_vars

\* the positions of deposit.sent that hold a transaction of this function
SentAt(fn) == { k \in 1..Len(deposit.sent) : deposit.sent[k].fn = fn }

\* C31: a deposit transaction is sent only after the validation passed and,
\* when the allowance is below the amount, after an approval transaction
\* whose receipt reports success; after a reverted approval receipt the call
\* has rejected with DepositTransactionError and no deposit transaction is sent
C31_DepositAfterValidationAndApproval ==
  /\ \A k \in SentAt("deposit") :
        /\ deposit.validation.valid
        /\ deposit.allowance < deposit.amount =>
              /\ \E j \in SentAt("approve") : j < k
              /\ deposit.approvalReceipt = "success"
  /\ deposit.approvalReceipt = "reverted" =>
        /\ deposit.pc = "rejected"
        /\ deposit.error = "DepositTransactionError"
        /\ SentAt("deposit") = {}

\* the deposit went through after an approval that succeeded
C31_DepositedAfterApproval ==
  /\ deposit.pc = "resolved"
  /\ deposit.allowance < deposit.amount
  /\ deposit.approvalReceipt = "success"
  /\ SentAt("approve") = {1} /\ SentAt("deposit") = {2}

(***************************************************************************)
(* The balance service: a cache per key, one request in flight per key,    *)
(* a debounce window before each fetch.                                    *)
(***************************************************************************)
BALANCE_CACHE_TTL_MS == 10000
BALANCE_DEBOUNCE_MS == 300
ADDRESS_HEX_DIGITS == 40

HexDigits ==
  { "0", "1", "2", "3", "4", "5", "6", "7", "8", "9",
    "a", "b", "c", "d", "e", "f", "A", "B", "C", "D", "E", "F" }

\* String.prototype.toLowerCase over the characters addresses are made of
toLowerCase(s) ==
  [i \in 1..Len(s) |->
     CASE s[i] = "A" -> "a" [] s[i] = "B" -> "b" [] s[i] = "C" -> "c"
       [] s[i] = "D" -> "d" [] s[i] = "E" -> "e" [] s[i] = "F" -> "f"
       [] s[i] = "X" -> "x" [] OTHER -> s[i]]

\* /^0x[a-fA-F0-9]{40}$/
isValidAddress(address) ==
  /\ Len(address) = 2 + ADDRESS_HEX_DIGITS
  /\ address[1] = "0" /\ address[2] = "x"
  /\ \A i \in 3..Len(address) : address[i] \in HexDigits

getCacheKeyAsGiven(address, chainId, tokenAddress) ==
  address \o <<":", ToString(chainId), ":">> \o tokenAddress

getCacheKey(address, chainId, tokenAddress) ==
  toLowerCase(address) \o <<":", ToString(chainId), ":">> \o toLowerCase(tokenAddress)

\* Map.has, Map.set, Map.delete
Has(map, key) == key \in DOMAIN map

Put(map, key, value) ==
  [k \in DOMAIN map \cup {key} |-> IF k = key THEN value ELSE map[k]]

Remove(map, key) == [k \in DOMAIN map \ {key} |-> map[k]]

NotCached == [found |-> FALSE, data |-> NoData, isStale |-> FALSE, cachedAt |-> 0]

CacheGetBalanceStrict(cache, key, t) ==
  IF ~ Has(cache, key) THEN NotCached
  ELSE IF t - cache[key].timestamp >= BALANCE_CACHE_TTL_MS THEN NotCached
  ELSE [ found |-> TRUE, data |-> cache[key].data, isStale |-> FALSE,
         cachedAt |-> cache[key].timestamp ]

\* BalanceCache.getBalance
CacheGetBalance(cache, key, t) ==
  IF ~ Has(cache, key) THEN NotCached
  ELSE IF t - cache[key].timestamp > BALANCE_CACHE_TTL_MS THEN NotCached
  ELSE [ found |-> TRUE, data |-> cache[key].data, isStale |-> FALSE,
         cachedAt |-> cache[key].timestamp ]

\* BalanceCache.setBalance
CacheSetBalance(cache, key, balance, t) ==
  Put(cache, key, [data |-> balance, timestamp |-> t])

\* BalanceCache.getBalanceStale
CacheGetBalanceStale(cache, key) ==
  IF ~ Has(cache, key) THEN NotCached
  ELSE [ found |-> TRUE, data |-> cache[key].data, isStale |-> FALSE,
         cachedAt |-> cache[key].timestamp ]

getPendingRequestNever(pending, key) == 0

\* BalanceCache.getPendingRequest: the promise in flight, or 0 for undefined
getPendingRequest(pending, key) == IF Has(pending, key) THEN pending[key] ELSE 0

\* the balance service's state as one value
BalanceService ==
  [ balanceCache |-> balanceCache, pendingRequests |-> pendingRequests,
    debounceTimers |-> debounceTimers, requests |-> requests, network |-> network ]

\* BalanceCache.clearDebounceTimer: clearTimeout stops a timer that has not fired
clearDebounceTimer(S, key) ==
  IF ~ Has(S.debounceTimers, key) THEN S
  ELSE [S EXCEPT !.requests[S.debounceTimers[key]].armed = FALSE,
                 !.debounceTimers = Remove(@, key)]

\* mapLifiBalanceToBalance, of the token the aggregator describes
mapLifiBalanceToBalance(tokenAddress, amount) ==
  [address |-> toLowerCase(tokenAddress), balance |-> amount, hasBalance |-> amount > 0]

Answer(S, kind, data, promise, error, source) ==
  [S |-> S, kind |-> kind, data |-> data, promise |-> promise, error |-> error,
   source |-> source]

\* getBalance up to its return: the answer is a value, a rejection, or a promise
getBalance(S, t, address, chainId, tokenAddress) ==
  IF ~ isValidAddress(address) \/ ~ isValidAddress(tokenAddress)
  THEN Answer(S, "rejected", NoData, 0, "InvalidAddressError", "invalid")
  ELSE Apply(getCacheKey(address, chainId, tokenAddress), LAMBDA cacheKey :
    Apply(CacheGetBalance(S.balanceCache, cacheKey, t), LAMBDA cached :
      IF cached.found
      THEN Answer(S, "resolved", cached.data, 0, "", "cache")
      ELSE IF getPendingRequest(S.pendingRequests, cacheKey) # 0
      THEN Answer(S, "promise", NoData, getPendingRequest(S.pendingRequests, cacheKey),
                  "", "pending")
      ELSE Apply(clearDebounceTimer(S, cacheKey), LAMBDA S1 :
        LET id == Len(S1.requests) + 1
            fetchPromise ==
              [ key |-> cacheKey, tokenAddress |-> tokenAddress, pc |-> "debounce",
                armed |-> TRUE, fireAt |-> t + BALANCE_DEBOUNCE_MS,
                outcome |-> "pending", data |-> NoData, error |-> "",
                \* not in the code: whether the catch block answered from the
                \* cache, and the HTTP requests made so far
                stale |-> FALSE, asked |-> 0 ]
        IN  Answer([S1 EXCEPT !.requests = Append(@, fetchPromise),
                              !.debounceTimers = Put(@, cacheKey, id),
                              !.pendingRequests = Put(@, cacheKey, id)],
                   "promise", NoData, id, "", "new"))))

\* the end of a fetchPromise body: return or catch, then finally
SettleFetchLeaky(S, t, r, ok, balance) ==
  LET key == S.requests[r].key
      stale == CacheGetBalanceStale(S.balanceCache, key)
      S1 == IF ok
            THEN [S EXCEPT !.balanceCache = CacheSetBalance(@, key, balance, t),
                           !.requests[r].outcome = "resolved",
                           !.requests[r].data = balance]
            ELSE IF stale.found
            THEN [S EXCEPT !.requests[r].outcome = "resolved",
                           !.requests[r].data = stale.data,
                           !.requests[r].stale = TRUE]
            ELSE [S EXCEPT !.requests[r].outcome = "rejected",
                           !.requests[r].error = "BalanceFetchError"]
      S2 == [S1 EXCEPT !.requests[r].pc = "settled"]
  IN  IF ok THEN clearDebounceTimer([S2 EXCEPT !.pendingRequests = Remove(@, key)], key)
      ELSE S2

SettleFetch(S, t, r, ok, balance) ==
  LET key == S.requests[r].key
      stale == CacheGetBalanceStale(S.balanceCache, key)
      S1 == IF ok
            THEN [S EXCEPT !.balanceCache = CacheSetBalance(@, key, balance, t),
                           !.requests[r].outcome = "resolved",
                           !.requests[r].data = balance]
            ELSE IF stale.found
            THEN [S EXCEPT !.requests[r].outcome = "resolved",
                           !.requests[r].data = stale.data,
                           !.requests[r].stale = TRUE]
            ELSE [S EXCEPT !.requests[r].outcome = "rejected",
                           !.requests[r].error = "BalanceFetchError"]
      S2 == [S1 EXCEPT !.requests[r].pc = "settled"]
  IN  clearDebounceTimer([S2 EXCEPT !.pendingRequests = Remove(@, key)], key)

(***************************************************************************)
(* Inputs of the balance service.                                          *)
(***************************************************************************)
\* "0x" and forty hex digits, d1 and d2 in turn
Address(d1, d2) ==
  <<"0", "x">> \o [i \in 1..ADDRESS_HEX_DIGITS |-> IF i % 2 = 1 THEN d1 ELSE d2]

NATIVE_TOKEN_ADDRESS == Address("0", "0")

ETHEREUM_CHAIN_ID == 1

\* one wallet in two spellings, and a string that is no address
Wallets == { Address("a", "b"), Address("A", "b"), <<"0", "x", "a", "b">> }

\* one token in two spellings
TokenAddresses == { Address("c", "1"), Address("C", "1") }

\* balances the chain answers with
Amounts == {0, 7}

\* getBalances parameters: chainIds, and tokenAddresses per chain where given
BalancesParams ==
  { [chainIds |-> <<ETHEREUM_CHAIN_ID>>, tokenAddresses |-> EmptyMap],
    [chainIds |-> <<ETHEREUM_CHAIN_ID, HYPEREVM_CHAIN_ID>>, tokenAddresses |-> EmptyMap],
    [chainIds |-> <<ETHEREUM_CHAIN_ID>>,
     tokenAddresses |-> Put(EmptyMap, ETHEREUM_CHAIN_ID, <<Address("C", "1")>>)] }

\* tokenAddresses?.[chainId] ?? [NATIVE_TOKEN_ADDRESS]
tokensToFetch(params, chainId) ==
  IF Has(params.tokenAddresses, chainId) THEN params.tokenAddresses[chainId]
  ELSE <<NATIVE_TOKEN_ADDRESS>>

\* the leaves of a getBalances call in the order their getBalance calls are made
RECURSIVE Leaves(_, _)
Leaves(params, n) ==
  IF n > Len(params.chainIds) THEN <<>>
  ELSE LET chainId == params.chainIds[n]
           tokens == tokensToFetch(params, chainId)
       IN  [k \in 1..Len(tokens) |-> [chainId |-> chainId, tokenAddress |-> tokens[k]]]
           \o Leaves(params, n + 1)

(***************************************************************************)
(* The actions of the balance service.                                     *)
(***************************************************************************)
\* a getBalance call as its caller sees it once the call has returned; the
\* catch of a getBalances leaf looks the key up with getBalanceStale
Called(ans, address, chainId, tokenAddress, leaf) ==
  [ IdleCaller EXCEPT
      !.pc = IF ans.kind = "promise" THEN "awaiting" ELSE "done",
      !.address = address, !.chainId = chainId, !.tokenAddress = tokenAddress,
      !.promise = ans.promise,
      !.outcome = IF ans.kind = "promise" THEN "none" ELSE ans.kind,
      !.data = ans.data, !.error = ans.error,
      !.source = ans.source, !.leaf = leaf,
      !.chainHasStaleData =
         /\ leaf /\ ans.kind = "rejected"
         /\ CacheGetBalanceStale(ans.S.balanceCache,
                                 getCacheKey(address, chainId, tokenAddress)).found ]

\* the promise of request r settles: every call that awaits it goes on
Deliver(cs, S, r) ==
  [c \in DOMAIN cs |->
     IF cs[c].pc = "awaiting" /\ cs[c].promise = r
     THEN [cs[c] EXCEPT
             !.pc = "done", !.outcome = S.requests[r].outcome,
             !.data = S.requests[r].data, !.error = S.requests[r].error,
             !.gotStale = S.requests[r].stale,
             !.chainHasStaleData =
                /\ cs[c].leaf /\ S.requests[r].outcome = "rejected"
                /\ CacheGetBalanceStale(S.balanceCache,
                     getCacheKey(cs[c].address, cs[c].chainId,
                                 cs[c].tokenAddress)).found]
     ELSE cs[c]]

\* the end of getBalances, once every leaf has settled
Aggregate(b, cs) ==
  IF b.pc = "awaiting" /\ \A c \in b.leaves : cs[c].pc = "done"
  THEN [b EXCEPT !.pc = "done",
                 !.isStale = \E c \in b.leaves : cs[c].chainHasStaleData]
  ELSE b

CommitBalance(S0, cs0, b) ==
  \E S \in {S0} : \E cs \in {cs0} :
     /\ balanceCache' = S.balanceCache
     /\ pendingRequests' = S.pendingRequests
     /\ debounceTimers' = S.debounceTimers
     /\ requests' = S.requests
     /\ network' = S.network
     /\ callers' = cs
     /\ balances' = Aggregate(b, cs)

FirstIdle == CHOOSE c \in 1..(MaxCallers + 1) :
               /\ c <= MaxCallers => callers[c].pc = "idle"
               /\ \A d \in 1..(c - 1) : callers[d].pc # "idle"

\* a caller calls getBalance(params, cache)
GetBalance ==
  /\ FirstIdle <= MaxCallers
  /\ \E address \in Wallets, tokenAddress \in TokenAddresses :
       \E ans \in {getBalance(BalanceService, now, address, ETHEREUM_CHAIN_ID,
                              tokenAddress)} :
          /\ Len(ans.S.requests) <= MaxRequests
          /\ CommitBalance(ans.S,
               [callers EXCEPT ![FirstIdle] =
                  Called(ans, address, ETHEREUM_CHAIN_ID, tokenAddress, FALSE)],
               balances)
  /\ UNCHANGED <<now, faults, nonBalanceVars>>

\* the getBalance calls of the leaves from the k-th on, made one after the other
RECURSIVE CallLeaves(_, _, _, _, _, _)
CallLeaves(S, cs, t, address, leaves, k) ==
  IF k > Len(leaves) THEN [S |-> S, callers |-> cs]
  ELSE Apply(getBalance(S, t, address, leaves[k].chainId, leaves[k].tokenAddress),
             LAMBDA ans :
         CallLeaves(ans.S,
                    [cs EXCEPT ![FirstIdle + k - 1] =
                       Called(ans, address, leaves[k].chainId,
                              leaves[k].tokenAddress, TRUE)],
                    t, address, leaves, k + 1))

\* a caller calls getBalances(params, cache)
GetBalances ==
  /\ balances.pc = "idle"
  /\ \E address \in Wallets, params \in BalancesParams :
       \E leaves \in {Leaves(params, 1)} :
          /\ FirstIdle + Len(leaves) - 1 <= MaxCallers
          /\ \E out \in {CallLeaves(BalanceService, callers, now, address, leaves, 1)} :
               /\ Len(out.S.requests) <= MaxRequests
               /\ CommitBalance(out.S, out.callers,
                    [ pc |-> "awaiting",
                      leaves |-> FirstIdle..(FirstIdle + Len(leaves) - 1),
                      isStale |-> FALSE ])
  /\ UNCHANGED <<now, faults, nonBalanceVars>>

\* one more HTTP request of request r
Asked(S, r) ==
  [S EXCEPT !.network.http = @ + 1, !.requests[r].asked = @ + 1]

\* one more fetchBalanceFromApi call for the key
Fetching(S, key) ==
  [S EXCEPT !.network.fetches = Put(@, key, IF Has(@, key) THEN @[key] + 1 ELSE 1)]

\* the debounce timer fires: fetchBalanceFromApi asks the aggregator for the token
DebounceFires(r) ==
  /\ requests[r].pc = "debounce"
  /\ requests[r].armed
  /\ now >= requests[r].fireAt
  /\ CommitBalance([Asked(Fetching(BalanceService, requests[r].key), r)
                      EXCEPT !.requests[r].pc = "token"],
                   callers, balances)
  /\ UNCHANGED <<now, faults, nonBalanceVars>>

Failed(r) ==
  /\ Fault
  /\ \E S \in {SettleFetch(BalanceService, now, r, FALSE, NoData)} :
        CommitBalance(S, Deliver(callers, S, r), balances)

\* the aggregator answers GET /v1/token; the service asks for the chains next
TokenSettles(r) ==
  /\ requests[r].pc = "token"
  /\ \/ /\ UNCHANGED faults
        /\ CommitBalance([Asked(BalanceService, r) EXCEPT !.requests[r].pc = "chains"],
                         callers, balances)
     \/ Failed(r)
  /\ UNCHANGED <<now, nonBalanceVars>>

\* the aggregator answers GET /v1/chains; the service calls the chain's RPC next
ChainsSettles(r) ==
  /\ requests[r].pc = "chains"
  /\ \/ /\ UNCHANGED faults
        /\ CommitBalance([Asked(BalanceService, r) EXCEPT !.requests[r].pc = "rpc"],
                         callers, balances)
     \/ Failed(r)
  /\ UNCHANGED <<now, nonBalanceVars>>

\* the RPC answers eth_getBalance or eth_call: the fetchPromise body ends
RpcSettles(r) ==
  /\ requests[r].pc = "rpc"
  /\ \/ /\ UNCHANGED faults
        /\ \E amount \in Amounts :
             \E S \in {SettleFetch(BalanceService, now, r, TRUE,
                         mapLifiBalanceToBalance(requests[r].tokenAddress, amount))} :
                CommitBalance(S, Deliver(callers, S, r), balances)
     \/ Failed(r)
  /\ UNCHANGED <<now, nonBalanceVars>>

\* time passes up to a debounce timer's deadline
DebounceTick ==
  /\ \E r \in 1..Len(requests) :
        /\ requests[r].pc = "debounce" /\ requests[r].armed
        /\ requests[r].fireAt > now
        /\ now' = requests[r].fireAt
  /\ UNCHANGED <<faults, executeVars, serviceVars>>

\* with nothing in flight, time passes up to the last instant an entry is
\* fresh, or just beyond it
TtlTick ==
  /\ DOMAIN pendingRequests = {}
  /\ \E key \in DOMAIN balanceCache :
        \E t \in { balanceCache[key].timestamp + BALANCE_CACHE_TTL_MS,
                   balanceCache[key].timestamp + BALANCE_CACHE_TTL_MS + 1 } :
           /\ t > now
           /\ now' = t
  /\ UNCHANGED <<faults, executeVars, serviceVars>>

NextBalance ==
  \/ GetBalance
  \/ GetBalances
  \/ \E r \in 1..Len(requests) : DebounceFires(r)
  \/ \E r \in 1..Len(requests) : TokenSettles(r)
  \/ \E r \in 1..Len(requests) : ChainsSettles(r)
  \/ \E r \in 1..Len(requests) : RpcSettles(r)
  \/ DebounceTick
  \/ TtlTick

SpecBalance == Init /\ [][NextBalance]_vars

\* String.prototype.startsWith
startsWith(s, prefix) ==
  /\ Len(prefix) <= Len(s)
  /\ SubSeq(s, 1, Len(prefix)) = prefix

\* BalanceCache.invalidate: the maps are emptied and every timer is stopped
invalidate(S) ==
  [S EXCEPT !.balanceCache = EmptyMap,
            !.pendingRequests = EmptyMap,
            !.requests = [r \in DOMAIN @ |->
                            IF \E key \in DOMAIN S.debounceTimers :
                                  S.debounceTimers[key] = r
                            THEN [@[r] EXCEPT !.armed = FALSE] ELSE @[r]],
            !.debounceTimers = EmptyMap]

\* BalanceCache.invalidateAddress
invalidateAddress(S, address) ==
  [S EXCEPT !.balanceCache =
     [key \in { k \in DOMAIN @ : ~ startsWith(k, toLowerCase(address)) } |-> @[key]]]

\* a caller calls cache.invalidate() while the cache holds something
Invalidate ==
  /\ DOMAIN balanceCache \cup DOMAIN pendingRequests \cup DOMAIN debounceTimers # {}
  /\ CommitBalance(invalidate(BalanceService), callers, balances)
  /\ UNCHANGED <<now, faults, nonBalanceVars>>

\* a caller calls cache.invalidateAddress(address) for an address of the cache
InvalidateAddress ==
  /\ \E address \in Wallets :
        /\ \E key \in DOMAIN balanceCache : startsWith(key, toLowerCase(address))
        /\ CommitBalance(invalidateAddress(BalanceService, address), callers, balances)
  /\ UNCHANGED <<now, faults, nonBalanceVars>>

\* the balance service with callers that invalidate the cache
NextInvalidate ==
  \/ GetBalance
  \/ \E r \in 1..Len(requests) : DebounceFires(r)
  \/ \E r \in 1..Len(requests) : TokenSettles(r)
  \/ \E r \in 1..Len(requests) : ChainsSettles(r)
  \/ \E r \in 1..Len(requests) : RpcSettles(r)
  \/ DebounceTick
  \/ Invalidate
  \/ InvalidateAddress

SpecInvalidate == Init /\ [][NextInvalidate]_vars

\* every timer that is armed fires and every request is answered
SpecInvalidateLive ==
  /\ SpecInvalidate
  /\ WF_vars(\E r \in 1..Len(requests) : DebounceFires(r))
  /\ WF_vars(\E r \in 1..Len(requests) : TokenSettles(r))
  /\ WF_vars(\E r \in 1..Len(requests) : ChainsSettles(r))
  /\ WF_vars(\E r \in 1..Len(requests) : RpcSettles(r))
  /\ WF_vars(DebounceTick)

(***************************************************************************)
(* Properties of the balance service.                                      *)
(***************************************************************************)
CallerIds == 1..MaxCallers

RequestIds == 1..Len(requests)

\* the key of the call a caller made, with a well-formed wallet and token
Valid(c) ==
  /\ callers[c].pc # "idle"
  /\ isValidAddress(callers[c].address) /\ isValidAddress(callers[c].tokenAddress)

KeyOf(c) ==
  toLowerCase(callers[c].address) \o <<":", ToString(callers[c].chainId), ":">>
    \o toLowerCase(callers[c].tokenAddress)

\* caller d makes its call in this step
Calls(d) == callers[d].pc = "idle" /\ callers'[d].pc # "idle"

\* a call that arrives while another call on the same key is waiting joins
\* that call's promise: no request is started for the key and the network is
\* not asked
JoinsRequestInFlight ==
  \A c, d \in CallerIds :
     /\ Calls(d) /\ callers[c].pc = "awaiting"
     /\ isValidAddress(callers'[d].address) /\ isValidAddress(callers'[d].tokenAddress)
     /\ KeyOf(c) = getCacheKeyAsGiven(toLowerCase(callers'[d].address),
                                      callers'[d].chainId,
                                      toLowerCase(callers'[d].tokenAddress))
     => /\ callers'[d].pc = "awaiting" /\ callers'[d].promise = callers[c].promise
        /\ \A r \in 1..Len(requests') : requests'[r].key = KeyOf(c) => r \in RequestIds
        /\ \A r \in RequestIds : requests'[r].asked = requests[r].asked
        /\ network'.fetches = network.fetches

\* a request calls fetchBalanceFromApi once, and what it settles with is what
\* every call that waited for it is answered with
OneFetchAnswersAll ==
  /\ \A key \in DOMAIN network.fetches :
        network.fetches[key] =
          Cardinality({ r \in RequestIds : /\ requests[r].key = key
                                           /\ requests[r].pc # "debounce" })
  /\ \A c \in CallerIds :
        callers[c].pc = "done" /\ callers[c].promise # 0
        => /\ requests[callers[c].promise].pc = "settled"
           /\ callers[c].outcome = requests[callers[c].promise].outcome
           /\ callers[c].data = requests[callers[c].promise].data

\* C12: concurrent getBalance calls on one key with nothing cached share one
\* request: one fetch is made and its result is the answer to each of the calls
C12_OneFetchForConcurrentCalls ==
  [][JoinsRequestInFlight]_vars /\ []OneFetchAnswersAll

\* three calls on one key were answered by the one fetch made
C12_ThreeCallsOneFetch ==
  /\ Len(requests) = 1 /\ requests[1].outcome = "resolved"
  /\ network.fetches[requests[1].key] = 1
  /\ \A c \in CallerIds :
        /\ ~ callers[c].leaf /\ callers[c].pc = "done" /\ callers[c].promise = 1
        /\ callers[c].data = requests[1].data
  /\ callers[1].source = "new" /\ callers[2].source = "pending"
  /\ callers[3].source = "pending"
  /\ callers[2].address # callers[1].address

\* request r settles in this step
Settles(r) == requests[r].pc # "settled" /\ requests'[r].pc = "settled"

\* C13: when the request in flight for a key settles, resolved or rejected, the
\* key has no pending-request marker and no debounce timer any more
C13_ClearedOnSettle ==
  [][\A r \in RequestIds :
        Settles(r) => /\ ~ Has(pendingRequests', requests[r].key)
                      /\ ~ Has(debounceTimers', requests[r].key)]_vars

\* a request was rejected and another one resolved, and nothing is registered
C13_RejectedAndResolved ==
  /\ Len(requests) = 2
  /\ requests[1].outcome = "rejected" /\ requests[2].outcome = "resolved"
  /\ requests[1].key = requests[2].key
  /\ DOMAIN pendingRequests = {} /\ DOMAIN debounceTimers = {}

\* C38: every getBalance call that awaits a request is settled in the end,
\* also when invalidate() is called while the request waits in its debounce
\* window or is in flight
C38_EveryCallSettles ==
  \A c \in 1..MaxCallers : (callers[c].pc = "awaiting") ~> (callers[c].pc = "done")

\* the requests of a key whose network fetch has started and has not ended
InFlight(key) ==
  { r \in 1..Len(requests) :
       requests[r].key = key /\ requests[r].pc \in {"token", "chains", "rpc"} }

\* C39: at most one network fetch is in flight per key
C39_OneFetchInFlightPerKey ==
  \A r \in 1..Len(requests) : Cardinality(InFlight(requests[r].key)) <= 1

\* the requests for a key that stored what they fetched
Stored(key) ==
  { r \in RequestIds : /\ requests[r].key = key /\ requests[r].outcome = "resolved"
                       /\ ~ requests[r].stale }

\* what the cache holds for a key is what the last fetch stored; get returns it
\* up to and including insertedAt + ttl and null after that, getStale returns
\* it in both cases
TtlCacheLaw ==
  \A key \in DOMAIN balanceCache :
     LET entry == balanceCache[key]
         get == CacheGetBalance(balanceCache, key, now)
         getStale == CacheGetBalanceStale(balanceCache, key)
     IN  /\ Stored(key) # {}
         /\ entry.data = requests[CHOOSE r \in Stored(key) :
                                    \A q \in Stored(key) : q <= r].data
         /\ getStale.found /\ getStale.data = entry.data
         /\ IF now - entry.timestamp <= BALANCE_CACHE_TTL_MS
            THEN get.found /\ get.data = entry.data
            ELSE ~ get.found

\* a getBalance call made while the entry of its key is fresh is answered with
\* the entry and asks the network nothing; a call made after the entry has
\* expired, with no request in flight, starts one request
CallsFollowTtl ==
  \A d \in CallerIds :
     /\ Calls(d) /\ ~ callers'[d].leaf
     /\ isValidAddress(callers'[d].address) /\ isValidAddress(callers'[d].tokenAddress)
     => \E key \in { getCacheKeyAsGiven(toLowerCase(callers'[d].address),
                                        callers'[d].chainId,
                                        toLowerCase(callers'[d].tokenAddress)) } :
           /\ Has(balanceCache, key)
              /\ now - balanceCache[key].timestamp <= BALANCE_CACHE_TTL_MS
              => /\ callers'[d].pc = "done" /\ callers'[d].outcome = "resolved"
                 /\ callers'[d].data = balanceCache[key].data
                 /\ requests' = requests /\ network' = network
           /\ Has(balanceCache, key) /\ ~ Has(pendingRequests, key)
              /\ now - balanceCache[key].timestamp > BALANCE_CACHE_TTL_MS
              => /\ Len(requests') = Len(requests) + 1
                 /\ callers'[d].pc = "awaiting"
                 /\ callers'[d].promise = Len(requests')
                 /\ requests'[Len(requests')].key = key

\* every request that fetched a balance made exactly n HTTP requests
FetchedWith(n) ==
  \A r \in RequestIds :
     /\ requests[r].asked <= IF n > 1 THEN n ELSE 1
     /\ requests[r].outcome = "resolved" /\ ~ requests[r].stale
        => requests[r].asked = n

\* C14 as stated: the TTL law of the cache, and a call after expiry triggers
\* exactly one network request
C14_OneRequestAfterExpiry ==
  [][CallsFollowTtl]_vars /\ [](TtlCacheLaw /\ FetchedWith(1))

\* C14, amended: the TTL law of the cache; a call within the TTL asks the
\* network nothing, and a call after expiry starts exactly one fetch, which
\* makes three HTTP requests when it succeeds and never more
C14_OneFetchAfterExpiry ==
  [][CallsFollowTtl]_vars /\ [](TtlCacheLaw /\ FetchedWith(3))

\* a call was answered from the cache, and a later one, made after the entry
\* had expired, by a second fetch
C14_HitThenRefetch ==
  /\ Len(requests) = 2
  /\ requests[1].key = requests[2].key
  /\ requests[2].outcome = "resolved" /\ ~ requests[2].stale /\ requests[2].asked = 3
  /\ callers[1].source = "new" /\ callers[1].promise = 1
  /\ callers[2].source = "cache" /\ callers[2].data = requests[1].data
  /\ callers[3].source = "new" /\ callers[3].promise = 2
  /\ callers[3].data # callers[2].data
  /\ network.http = 6

\* caller c made the same call as the one d makes in this step, up to the
\* letter case of the wallet and token addresses, and spelled it differently
SameUpToCase(c, d) ==
  /\ callers[c].pc = "done" /\ Valid(c)
  /\ callers[c].chainId = callers'[d].chainId
  /\ toLowerCase(callers[c].address) = toLowerCase(callers'[d].address)
  /\ toLowerCase(callers[c].tokenAddress) = toLowerCase(callers'[d].tokenAddress)
  /\ \/ callers[c].address # callers'[d].address
     \/ callers[c].tokenAddress # callers'[d].tokenAddress

\* C16: a getBalance call that differs from an earlier one only in the letter
\* case of the wallet or token address finds the earlier call's cache entry: while
\* that entry is fresh the call is answered with it and nothing is fetched
C16_CaseInsensitiveKeys ==
  [][\A c, d \in CallerIds :
        /\ Calls(d) /\ SameUpToCase(c, d)
        /\ Has(balanceCache, KeyOf(c))
        /\ now - balanceCache[KeyOf(c)].timestamp <= BALANCE_CACHE_TTL_MS
        => /\ callers'[d].pc = "done" /\ callers'[d].outcome = "resolved"
           /\ callers'[d].source = "cache"
           /\ callers'[d].data = balanceCache[KeyOf(c)].data
           /\ \A r \in 1..Len(requests') :
                 requests'[r].key = KeyOf(c) => r \in RequestIds
           /\ \A r \in RequestIds : requests'[r].asked = requests[r].asked
           /\ network' = network]_vars

\* a call spelled in lower case was fetched, and the same call spelled with
\* capitals in both addresses was answered from the cache
C16_OtherSpellingHit ==
  /\ Len(requests) = 1
  /\ callers[1].source = "new" /\ callers[1].pc = "done"
  /\ callers[1].address = Address("a", "b") /\ callers[1].tokenAddress = Address("c", "1")
  /\ callers[2].source = "cache" /\ callers[2].pc = "done"
  /\ callers[2].address = Address("A", "b") /\ callers[2].tokenAddress = Address("C", "1")
  /\ callers[2].data = callers[1].data

\* C17: the isStale flag of a BalancesResponse is true exactly when one of its
\* per-token lookups was answered with an expired cache entry
C17_StaleFlagMatchesLeaves ==
  balances.pc = "done"
  => (balances.isStale <=> \E c \in balances.leaves : callers[c].gotStale)

(***************************************************************************)
(* The quote service: getQuote over the quote cache.                       *)
(***************************************************************************)
QUOTE_CACHE_TTL_MS == 30000
QUOTE_VALIDITY_MS == 60000
DEFAULT_SLIPPAGE == 50    \* 0.005, in units of 0.0001
MIN_SLIPPAGE == 1         \* 0.0001
MAX_SLIPPAGE == 500       \* 0.05
SLIPPAGE_ONE == 10000     \* 1

NoQuote == [found |-> FALSE, quote |-> [id |-> 0, expiresAt |-> 0]]

\* QuoteCache.getKey
getKey(params) ==
  << SOURCE_CHAIN_ID, HYPEREVM_CHAIN_ID, params.fromAmount,
     IF params.slippage = -1 THEN DEFAULT_SLIPPAGE ELSE params.slippage >>

\* QuoteCache.get
QuoteCacheGet(cache, params, t) ==
  LET key == getKey(params)
  IN  IF ~ Has(cache, key) THEN NoQuote
      ELSE IF t - cache[key].timestamp > QUOTE_CACHE_TTL_MS THEN NoQuote
      ELSE [found |-> TRUE, quote |-> cache[key].quote]

\* QuoteCache.set
QuoteCacheSet(cache, params, quote, t) ==
  Put(cache, getKey(params), [quote |-> quote, timestamp |-> t])

QuoteCacheGetStaleAnyAge(cache, params, t) ==
  LET key == getKey(params)
  IN  IF ~ Has(cache, key) THEN [cache |-> cache, entry |-> NoQuote]
      ELSE [cache |-> cache, entry |-> [found |-> TRUE, quote |-> cache[key].quote]]

\* QuoteCache.getStale: an entry whose quote has expired is deleted
QuoteCacheGetStale(cache, params, t) ==
  LET key == getKey(params)
  IN  IF ~ Has(cache, key) THEN [cache |-> cache, entry |-> NoQuote]
      ELSE IF cache[key].quote.expiresAt <= t
      THEN [cache |-> Remove(cache, key), entry |-> NoQuote]
      ELSE [cache |-> cache, entry |-> [found |-> TRUE, quote |-> cache[key].quote]]

\* what fetchQuoteFromApi throws: NetworkError on an HTTP error status,
\* NoRouteFoundError on 404 or "No available quotes", QuoteFetchError on a
\* malformed response, a plain Error on a timeout or a transport failure
FetchQuoteErrors == {"NetworkError", "NoRouteFoundError", "QuoteFetchError", "Error"}

\* the normalizedParams of getQuote; slippage -1 is a slippage not given
Normalized(params) ==
  [params EXCEPT !.slippage = IF @ = -1 THEN DEFAULT_SLIPPAGE ELSE @]

\* slippage in units of 0.0001: not given, negative, 0, the default, just
\* above MAX_SLIPPAGE, just above 1
Slippages == {-1, -DEFAULT_SLIPPAGE, 0, DEFAULT_SLIPPAGE, MAX_SLIPPAGE + 1, SLIPPAGE_ONE + 1}

QuoteParams == { [fromAmount |-> FROM_AMOUNT, slippage |-> s] : s \in Slippages }

\* validateQuoteParams, for chains and addresses that are valid: the field an
\* InvalidQuoteParamsError is thrown for, "" when none is
validateQuoteParams(params) ==
  IF params.fromAmount <= 0 THEN "fromAmount"
  ELSE IF params.slippage # -1
          /\ (params.slippage < 0 \/ params.slippage > SLIPPAGE_ONE)
  THEN "slippage"
  ELSE ""

\* getQuote(params) up to "await fetchQuoteFromApi"; the chains that
\* validateQuoteParams awaits are taken from the chain cache
GetQuote(q) ==
  /\ quoteCalls[q].pc = "idle"
  /\ \A p \in 1..(q - 1) : quoteCalls[p].pc # "idle"
  /\ \E params \in QuoteParams :
       LET cached == QuoteCacheGet(quoteCache, Normalized(params), now)
       IN  quoteCalls' = [quoteCalls EXCEPT ![q] =
             IF validateQuoteParams(params) # ""
             THEN [@ EXCEPT !.pc = "done", !.params = params,
                            !.outcome = "raised",
                            !.error = "InvalidQuoteParamsError"]
             ELSE IF cached.found /\ cached.quote.expiresAt > now
             THEN [@ EXCEPT !.pc = "done", !.params = params,
                            !.outcome = "returned", !.quote = cached.quote]
             ELSE [@ EXCEPT !.pc = "fetching", !.params = params]]
  /\ UNCHANGED <<now, faults, quoteCache, nonQuoteVars>>

\* fetchQuoteFromApi settles: the quote is mapped and cached, or the catch
\* block falls back to the cache
QuoteSettles(q) ==
  /\ quoteCalls[q].pc = "fetching"
  /\ \/ /\ UNCHANGED faults
        /\ LET quote == [id |-> now, expiresAt |-> now + QUOTE_VALIDITY_MS]
           IN  /\ quoteCache' = QuoteCacheSet(quoteCache,
                                              Normalized(quoteCalls[q].params), quote, now)
               /\ quoteCalls' = [quoteCalls EXCEPT ![q] =
                    [@ EXCEPT !.pc = "done", !.outcome = "returned", !.quote = quote]]
     \/ /\ Fault
        /\ \E error \in FetchQuoteErrors :
             \E stale \in {QuoteCacheGetStale(quoteCache,
                                              Normalized(quoteCalls[q].params), now)} :
                /\ quoteCache' = stale.cache
                /\ quoteCalls' = [quoteCalls EXCEPT ![q] =
                     [@ EXCEPT
                        !.pc = "done", !.failure = error, !.failedAt = now,
                        !.held = IF Has(quoteCache, getKey(quoteCalls[q].params))
                                 THEN quoteCache[getKey(quoteCalls[q].params)].quote
                                 ELSE @,
                        !.outcome = IF stale.entry.found THEN "returned" ELSE "raised",
                        !.quote = IF stale.entry.found THEN stale.entry.quote ELSE @,
                        !.error = IF stale.entry.found THEN ""
                                  ELSE IF error = "Error" THEN "QuoteFetchError"
                                  ELSE error]]
  /\ UNCHANGED <<now, nonQuoteVars>>

\* time passes: just beyond the TTL of an entry, or up to, onto or just beyond
\* the expiry of its quote
QuoteTick ==
  /\ \E key \in DOMAIN quoteCache :
        \E t \in { quoteCache[key].timestamp + QUOTE_CACHE_TTL_MS + 1,
                   quoteCache[key].quote.expiresAt - 1,
                   quoteCache[key].quote.expiresAt,
                   quoteCache[key].quote.expiresAt + 1 } :
           /\ t > now
           /\ now' = t
  /\ UNCHANGED <<faults, executeVars, serviceVars>>

NextQuote ==
  \/ \E q \in 1..MaxQuoteCalls : GetQuote(q)
  \/ \E q \in 1..MaxQuoteCalls : QuoteSettles(q)
  \/ QuoteTick

SpecQuote == Init /\ [][NextQuote]_vars

\* the aggregator call of q failed while the cache held a quote for its key
FailedOverCached(q) ==
  /\ quoteCalls[q].pc = "done" /\ quoteCalls[q].failure # ""
  /\ quoteCalls[q].held.expiresAt # 0

RaisedFor(failure) == IF failure = "Error" THEN "QuoteFetchError" ELSE failure

ARRIVAL_POLL_INTERVAL_MS == 5000

\* previousBalance, and the balances getUsdcBalance may come back with: one
\* below it, the same, one above it, and 99 above it
PreviousBalances == {5}

PolledBalances == UNION { {p - 1, p, p + 1, p + 99} : p \in PreviousBalances }

\* options.expectedAmount: -1 when it is not given, otherwise the amount of
\* the decimal string
ExpectedAmounts == {-1, 0, 1, 101, 102}

\* options.timeout
ArrivalTimeouts == { k * ARRIVAL_POLL_INTERVAL_MS : k \in 0..MaxArrivalPolls }

\* options.onPoll: not given, a callback that returns, a callback that throws
OnPolls == {"none", "returns", "throws"}

\* the time a getUsdcBalance call may take
PollDelays == {0, 2000}

\* (expectedBigInt * 99n) / 100n
minExpected(expectedAmount) == (expectedAmount * 99) \div 100

ArrivedAnyIncrease(previousBalance, currentBalance, expectedAmount) ==
  currentBalance - previousBalance > 0

\* the test a polled balance has to pass for the detector to return
Arrived(previousBalance, currentBalance, expectedAmount) ==
  LET difference == currentBalance - previousBalance
  IN  /\ difference > 0
      /\ expectedAmount # -1 => ~(difference < minExpected(expectedAmount))

\* the head of the while loop at time t: another attempt, or the timeout error
ArrivalLoop(a, t) ==
  IF t - a.startTime < a.timeout
  THEN [a EXCEPT !.attempt = @ + 1, !.pc = "polling"]
  ELSE [a EXCEPT !.pc = "threw",
                 !.error = [code |-> "USDC_ARRIVAL_TIMEOUT",
                            lastBalance |-> a.lastBalance]]

PolledKeepsLast(a, currentBalance) ==
  LET seen == [a EXCEPT !.polls = Append(@, [ok |-> TRUE, balance |-> currentBalance])]
  IN  IF a.onPoll = "throws"
      THEN [seen EXCEPT !.pc = "sleeping"]
      ELSE IF Arrived(a.previousBalance, currentBalance, a.expectedAmount)
      THEN [seen EXCEPT
              !.pc = "returned",
              !.result = [detected |-> TRUE,
                          amount |-> currentBalance - a.previousBalance,
                          currentBalance |-> currentBalance]]
      ELSE [seen EXCEPT !.pc = "sleeping"]

\* the body of the try block once getUsdcBalance has resolved: a throw of
\* onPoll lands in the catch, which logs and goes on to sleep
Polled(a, currentBalance) ==
  LET seen == [a EXCEPT !.lastBalance = currentBalance,
                        !.polls = Append(@, [ok |-> TRUE, balance |-> currentBalance])]
  IN  IF a.onPoll = "throws"
      THEN [seen EXCEPT !.pc = "sleeping"]
      ELSE IF Arrived(a.previousBalance, currentBalance, a.expectedAmount)
      THEN [seen EXCEPT
              !.pc = "returned",
              !.result = [detected |-> TRUE,
                          amount |-> currentBalance - a.previousBalance,
                          currentBalance |-> currentBalance]]
      ELSE [seen EXCEPT !.pc = "sleeping"]

\* the call, up to its first await
DetectUsdcArrivalFromSnapshot ==
  /\ arrival.pc = "idle"
  /\ \E previousBalance \in PreviousBalances, expectedAmount \in ExpectedAmounts,
        timeout \in ArrivalTimeouts, onPoll \in OnPolls :
        arrival' = ArrivalLoop([arrival EXCEPT
                                  !.previousBalance = previousBalance,
                                  !.expectedAmount = expectedAmount,
                                  !.timeout = timeout,
                                  !.onPoll = onPoll,
                                  !.startTime = now,
                                  !.lastBalance = previousBalance], now)
  /\ UNCHANGED <<now, faults, nonArrivalVars>>

\* getUsdcBalance settles: with a balance, or with an error that the catch logs
ArrivalPollSettles ==
  /\ arrival.pc = "polling"
  /\ \E d \in PollDelays : now' = now + d
  /\ \/ \E currentBalance \in PolledBalances :
           arrival' = Polled(arrival, currentBalance)
     \/ arrival' = [arrival EXCEPT
                      !.pc = "sleeping",
                      !.polls = Append(@, [ok |-> FALSE, balance |-> 0])]
  /\ UNCHANGED <<faults, nonArrivalVars>>

\* sleep(pollInterval) is over
ArrivalSleepDone ==
  /\ arrival.pc = "sleeping"
  /\ now' = now + ARRIVAL_POLL_INTERVAL_MS
  /\ arrival' = ArrivalLoop(arrival, now')
  /\ UNCHANGED <<faults, nonArrivalVars>>

NextArrival ==
  \/ DetectUsdcArrivalFromSnapshot
  \/ ArrivalPollSettles
  \/ ArrivalSleepDone

SpecArrival == Init /\ [][NextArrival]_vars

\* every getUsdcBalance call settles and every timer fires
SpecArrivalLive ==
  SpecArrival /\ WF_vars(ArrivalPollSettles) /\ WF_vars(ArrivalSleepDone)

\* ---- claims about the arrival detector ----

ArrivalOver == arrival.pc \in {"returned", "threw"}

\* poll i came back with a balance that is at least floor(expectedAmount*99/100)
\* above the snapshot
WithinTolerance(i) ==
  /\ arrival.polls[i].ok
  /\ arrival.polls[i].balance - arrival.previousBalance
       >= minExpected(arrival.expectedAmount)

LastObserved ==
  LET ok == { i \in 1..Len(arrival.polls) : arrival.polls[i].ok }
  IN  IF ok = {} THEN arrival.previousBalance
      ELSE arrival.polls[CHOOSE i \in ok : \A j \in ok : j <= i].balance

PollFails ==
  /\ arrival.pc = "polling"
  /\ Len(arrival'.polls) = Len(arrival.polls) + 1
  /\ ~arrival'.polls[Len(arrival'.polls)].ok

L1_CONFIRMATION_TIMEOUT_MS == 120000

L1_HARD_MAX_TIMEOUT_MS == 1800000

L1_POLL_INTERVAL_MS == 5000

\* the balance getHyperliquidBalance first comes back with, and what it may
\* come back with later: one below it, the same, and 99 above it
InitialBalances == {5}

L1Balances == UNION { {b - 1, b, b + 99} : b \in InitialBalances }

\* expectedAmount, as the amount of the decimal string
L1ExpectedAmounts == {0, 101, 102}

\* options.timeout: over before the second poll, or the default
L1Timeouts == {L1_POLL_INTERVAL_MS - 1, L1_CONFIRMATION_TIMEOUT_MS}

\* options.pollInterval: the default, or one that passes the hard maximum
\* timeout in two sleeps
L1PollIntervals == {L1_POLL_INTERVAL_MS, L1_HARD_MAX_TIMEOUT_MS \div 2 + 1}

\* the argument of controller.extendTimeout: one more poll interval, or more
\* than the hard maximum timeout
AdditionalMs == {L1_POLL_INTERVAL_MS, 2 * L1_HARD_MAX_TIMEOUT_MS}

\* controller.getStatus at time t
controllerGetStatus(l, t) ==
  [ elapsed |-> t - l.startTime, timeout |-> l.timeout,
    isRunning |-> ~l.cancelled /\ ~l.completed,
    cancelled |-> l.cancelled, completed |-> l.completed ]

L1MonitorCancelledError(l, reason) ==
  [l EXCEPT !.pc = "rejected",
            !.error = [name |-> "L1MonitorCancelledError", reason |-> reason,
                       elapsed |-> l.elapsed]]

L1LoopNoHardMaximum(l, t) ==
  LET m == [l EXCEPT !.elapsed = t - l.startTime, !.attempt = @ + 1]
  IN  IF m.cancelled THEN L1MonitorCancelledError(m, "cancelled")
      ELSE [m EXCEPT !.pc = "polling"]

\* the head of the while (true) loop at time t, up to the next await
L1Loop(l, t) ==
  LET m == [l EXCEPT !.elapsed = t - l.startTime, !.attempt = @ + 1]
  IN  IF m.cancelled THEN L1MonitorCancelledError(m, "cancelled")
      ELSE IF m.elapsed > L1_HARD_MAX_TIMEOUT_MS
      THEN L1MonitorCancelledError(m, "max_timeout")
      ELSE [m EXCEPT !.pc = "polling"]

TimeoutWarningEveryPoll(l) ==
  IF l.elapsed > l.timeout
  THEN IF l.onTimeoutWarning = "throws"
       THEN [l EXCEPT !.warnings = @ + 1, !.activationWarnings = @ + 1,
                      !.pc = "rejected",
                      !.error = [name |-> "Error", reason |-> "",
                                 elapsed |-> l.elapsed]]
       ELSE [l EXCEPT !.warnings = IF l.onTimeoutWarning = "none" THEN @ ELSE @ + 1,
                      !.activationWarnings =
                         IF l.onTimeoutWarning = "none" THEN @ ELSE @ + 1,
                      !.pc = "sleeping"]
  ELSE [l EXCEPT !.pc = "sleeping"]

\* the timeout warning after the try block, then the sleep; an exception of
\* onTimeoutWarning leaves the async function and rejects its promise
TimeoutWarning(l) ==
  IF l.elapsed > l.timeout /\ ~l.timeoutWarningEmitted
  THEN IF l.onTimeoutWarning = "throws"
       THEN [l EXCEPT !.timeoutWarningEmitted = TRUE, !.warnings = @ + 1,
                      !.activationWarnings = @ + 1,
                      !.pc = "rejected",
                      !.error = [name |-> "Error", reason |-> "",
                                 elapsed |-> l.elapsed]]
       ELSE [l EXCEPT !.timeoutWarningEmitted = TRUE,
                      !.warnings = IF l.onTimeoutWarning = "none" THEN @ ELSE @ + 1,
                      !.activationWarnings =
                         IF l.onTimeoutWarning = "none" THEN @ ELSE @ + 1,
                      !.pc = "sleeping"]
  ELSE [l EXCEPT !.pc = "sleeping"]

L1PolledAbove(l, balance, t) ==
  LET m == [l EXCEPT !.currentBalance = balance,
                     !.polls = Append(@, [ok |-> TRUE, balance |-> balance])]
      difference == balance - l.initialBalance
  IN  IF l.onProgress = "throws" THEN TimeoutWarning(m)
      ELSE IF difference > (l.expectedAmount * 99) \div 100
      THEN [m EXCEPT
              !.completed = TRUE, !.pc = "resolved",
              !.result = [confirmed |-> TRUE, amount |-> difference,
                          finalBalance |-> balance,
                          confirmationTime |-> t - l.startTime]]
      ELSE TimeoutWarning(m)

\* the try block once getHyperliquidBalance has resolved at time t: a throw
\* of onProgress lands in the catch, which logs it as a failed poll
L1Polled(l, balance, t) ==
  LET m == [l EXCEPT !.currentBalance = balance,
                     !.polls = Append(@, [ok |-> TRUE, balance |-> balance])]
      difference == balance - l.initialBalance
  IN  IF l.onProgress = "throws" THEN TimeoutWarning(m)
      ELSE IF difference >= (l.expectedAmount * 99) \div 100
      THEN [m EXCEPT
              !.completed = TRUE, !.pc = "resolved",
              !.result = [confirmed |-> TRUE, amount |-> difference,
                          finalBalance |-> balance,
                          confirmationTime |-> t - l.startTime]]
      ELSE TimeoutWarning(m)

\* the call: the address check, the closure, and the async function up to
\* its first await
MonitorL1Confirmation ==
  /\ l1.pc = "idle"
  /\ \/ l1' = [l1 EXCEPT !.pc = "invalid",
                         !.error = [name |-> "InvalidL1AddressError",
                                    reason |-> "", elapsed |-> 0]]
     \/ \E expectedAmount \in L1ExpectedAmounts, timeout \in L1Timeouts,
           pollInterval \in L1PollIntervals,
           onProgress \in {"returns", "throws"},
           onTimeoutWarning \in {"none", "returns", "throws"} :
           l1' = [l1 EXCEPT !.pc = "initial",
                            !.expectedAmount = expectedAmount,
                            !.timeout = timeout,
                            !.pollInterval = pollInterval,
                            !.onProgress = onProgress,
                            !.onTimeoutWarning = onTimeoutWarning,
                            !.startTime = now]
  /\ UNCHANGED <<now, faults, nonL1Vars>>

\* the first getHyperliquidBalance settles; its error rejects the result
L1InitialSettles ==
  /\ l1.pc = "initial"
  /\ \/ \E balance \in InitialBalances :
           l1' = L1Loop([l1 EXCEPT !.initialBalance = balance,
                                   !.currentBalance = balance], now)
     \/ l1' = [l1 EXCEPT !.pc = "rejected",
                         !.error = [name |-> "NetworkError", reason |-> "",
                                    elapsed |-> 0]]
  /\ UNCHANGED <<now, faults, nonL1Vars>>

\* the getHyperliquidBalance of a poll settles
L1PollSettles ==
  /\ l1.pc = "polling"
  /\ \/ \E balance \in L1Balances : l1' = L1Polled(l1, balance, now)
     \/ l1' = TimeoutWarning([l1 EXCEPT
                                !.polls = Append(@, [ok |-> FALSE, balance |-> 0])])
  /\ UNCHANGED <<now, faults, nonL1Vars>>

\* sleep(pollInterval) is over
L1SleepDone ==
  /\ l1.pc = "sleeping"
  /\ l1.attempt < MaxL1Polls
  /\ now' = now + l1.pollInterval
  /\ l1' = L1Loop(l1, now')
  /\ UNCHANGED <<faults, nonL1Vars>>

\* controller.cancel()
L1Cancel ==
  /\ l1.pc \notin {"idle", "invalid"}
  /\ ~l1.cancelled
  /\ l1' = [l1 EXCEPT !.cancelled = TRUE]
  /\ UNCHANGED <<now, faults, nonL1Vars>>

\* controller.extendTimeout(additionalMs)
L1ExtendTimeout ==
  /\ l1.pc \notin {"idle", "invalid"}
  /\ l1.extensions < MaxExtensions
  /\ \E additionalMs \in AdditionalMs :
        l1' = [l1 EXCEPT !.timeout = @ + additionalMs,
                         !.timeoutWarningEmitted = FALSE,
                         !.extensions = @ + 1,
                         !.activationWarnings = 0]
  /\ UNCHANGED <<now, faults, nonL1Vars>>

NextL1 ==
  \/ MonitorL1Confirmation
  \/ L1InitialSettles
  \/ L1PollSettles
  \/ L1SleepDone
  \/ L1Cancel
  \/ L1ExtendTimeout

SpecL1 == Init /\ [][NextL1]_vars

\* ---- claims about the L1 monitor ----

\* poll i came back with a balance at least floor(expectedAmount * 99 / 100)
\* above the initial balance
Confirms(i) ==
  /\ l1.polls[i].ok
  /\ l1.polls[i].balance - l1.initialBalance >= (l1.expectedAmount * 99) \div 100

\* C20: the result of the L1 monitor resolves as confirmed exactly at the
\* first poll where currentBalance - initialBalance >= floor(expectedAmount *
\* 99 / 100), and the controller status is then completed; it never resolves
\* below the threshold
C20_ResolvesAtFirstConfirmingPoll ==
  LET confirming == { i \in 1..Len(l1.polls) : Confirms(i) }
  IN  /\ l1.pc = "resolved" =>
           /\ confirming = {Len(l1.polls)}
           /\ l1.result.confirmed
           /\ controllerGetStatus(l1, now).completed
      /\ confirming # {} => l1.pc = "resolved"

\* what holds of the monitor instead: the same, for the polls whose
\* onProgress callback returns
C20_ResolvesAtFirstConfirmingReportedPoll ==
  LET confirming == { i \in 1..Len(l1.polls) :
                        Confirms(i) /\ l1.onProgress # "throws" }
  IN  /\ l1.pc = "resolved" =>
           /\ confirming = {Len(l1.polls)}
           /\ l1.result.confirmed
           /\ controllerGetStatus(l1, now).completed
      /\ confirming # {} => l1.pc = "resolved"

\* confirmed on the threshold itself, at a poll after one that stayed below it
C20_ConfirmedOnThreshold ==
  /\ l1.pc = "resolved"
  /\ Len(l1.polls) > 1
  /\ l1.polls[1].ok
  /\ l1.result.amount = (l1.expectedAmount * 99) \div 100
  /\ l1.result.amount > 0


\* every getHyperliquidBalance call settles and every timer fires
SpecL1Live ==
  SpecL1 /\ WF_vars(L1InitialSettles) /\ WF_vars(L1PollSettles) /\ WF_vars(L1SleepDone)

L1Settled == l1.pc \in {"resolved", "rejected"}

\* C21: passing the soft timeout never settles the result: the poll after
\* which the warning is due ends in the next sleep, or resolves the result
\* when it is a confirming poll
C21_SoftTimeoutOnlyWarns ==
  [][(l1.pc = "polling" /\ l1.elapsed > l1.timeout) =>
        /\ l1'.pc \in {"polling", "sleeping", "resolved"}
        /\ (l1'.pc = "resolved" =>
              /\ l1'.result.confirmed
              /\ l1'.result.finalBalance - l1'.initialBalance
                   >= (l1'.expectedAmount * 99) \div 100)]_vars

L1Running == l1.pc \in {"initial", "polling", "sleeping"}

\* the runs in which the bound on the polls leaves room for 30 minutes to pass
ReachesHardMaximum ==
  l1.pollInterval \in { pollInterval \in L1PollIntervals :
                          (MaxL1Polls - 1) * pollInterval > L1_HARD_MAX_TIMEOUT_MS }

C24_CancelledNeverConfirms ==
  [][(l1.cancelled /\ L1Running) =>
        /\ l1'.pc # "resolved"
        /\ (l1'.pc = "rejected" =>
              /\ l1'.error.name = "L1MonitorCancelledError"
              /\ l1'.error.reason = "cancelled")]_vars

\* C40: once the result is resolved as confirmed, or rejected for cancel or
\* for the hard maximum, getStatus().isRunning is false
C40_SettledNotRunning ==
  \/ l1.pc = "resolved"
  \/ l1.pc = "rejected" /\ l1.error.name = "L1MonitorCancelledError"
  => ~ controllerGetStatus(l1, now).isRunning

\* the getQuote calls that went on to the aggregator or to the cache
Accepted(q) ==
  /\ quoteCalls[q].pc # "idle"
  /\ quoteCalls[q].error # "InvalidQuoteParamsError"

\* C27: getQuote accepts a request only if its slippage lies in [0.0001,
\* 0.05], and rejects any other with InvalidQuoteParams before it contacts
\* the aggregator
C27_SlippageWithinRange ==
  \A q \in 1..MaxQuoteCalls :
     Accepted(q) =>
        \/ quoteCalls[q].params.slippage = -1
        \/ /\ quoteCalls[q].params.slippage >= MIN_SLIPPAGE
           /\ quoteCalls[q].params.slippage <= MAX_SLIPPAGE

\* what holds of getQuote instead: the slippage it accepts lies in [0, 1]
C27_SlippageBetweenZeroAndOne ==
  \A q \in 1..MaxQuoteCalls :
     /\ Accepted(q) =>
          \/ quoteCalls[q].params.slippage = -1
          \/ /\ quoteCalls[q].params.slippage >= 0
             /\ quoteCalls[q].params.slippage <= SLIPPAGE_ONE
     /\ quoteCalls[q].error = "InvalidQuoteParamsError" =>
          /\ quoteCalls[q].failure = ""
          /\ quoteCalls[q].params.slippage # -1
          /\ (quoteCalls[q].params.slippage < 0
                \/ quoteCalls[q].params.slippage > SLIPPAGE_ONE)

====
